---------------------------- MODULE Spec2Model ----------------------------
(***************************************************************************)
(* Locator synthesis engine of the XPath extractor: the live tree, the     *)
(* expression oracle (document.evaluate), the seven strategies, the        *)
(* strategy manager, the synthesis coordinator (XPathGenerator) and its    *)
(* TTL cache.                                                              *)
(*                                                                         *)
(* A document is a sequence of element records in document order; node 1   *)
(* is <html>, node 2 is <body>.  An expression is kept as the sequence of  *)
(* location steps the code concatenates, each with the separator text      *)
(* that precedes it, so that a separator the grammar does not allow makes  *)
(* the oracle fail exactly where document.evaluate throws.                 *)
(***************************************************************************)
EXTENDS Integers, Sequences, FiniteSets, TLC

(***************************************************************************)
(* Bounds of the model.                                                    *)
(***************************************************************************)
\* deepest nesting below the anchoring ancestor in the chain documents
MaxDepth == 6
\* largest number of equal-text siblings in the sibling documents
MaxSibs == 3
\* number of clock ticks (of TickMs each) a behaviour may take
MaxTicks == 3
\* number of generateXPath calls a behaviour may make
MaxCalls == 2
\* largest number of repeated blocks in the svg, attribute and shadow documents
MaxBlocks == 2
\* number of strategies a behaviour may register after construction
MaxRegistrations == 3
\* number of clock steps a behaviour of the extractor cache may take
MaxAnalyzerTicks == 3
MaxShows == 6
MaxPending == 3
MaxRequests == 2
MaxClicks == 6

(***************************************************************************)
(* Program constants.                                                      *)
(***************************************************************************)
cacheTimeout == 10000
analyzerCacheTimeout == 5000
\* granularity of the modelled clock (Date.now() advances in these steps)
TickMs == analyzerCacheTimeout

(***************************************************************************)
(* Strings.  TLA+ strings are atomic, so the character-level tests of the  *)
(* code (quote characters, trimming, substring, the regular expressions)   *)
(* are tabulated over the values that occur in the documents below.        *)
(***************************************************************************)
\* text.includes("'")
HasApos(v) == v \in {"it's"}
\* text.includes('"')
HasQuot(v) == v \in {"say \"hi\""}
\* String.prototype.trim
Trim(v) == IF v = " Active " THEN "Active" ELSE v
\* a.includes(b), the XPath contains(a, b)
StrContains(a, b) ==
    \/ a = b
    \/ b = ""
    \/ <<a, b>> \in { <<" Active ", "Active">>, <<"Active users", "Active">>,
                      <<"btn card", "btn">>, <<"btn card", "card">>,
                      <<"css-1a2b3c", "css">> }
\* className.split(/\s+/).filter(cls => cls.length > 0)
SplitWs(v) ==
    IF v = "" THEN << >>
    ELSE IF v = "btn card" THEN <<"btn", "card">>
    ELSE <<v>>
\* name.startsWith(prefix)
StartsWith(v, prefix) ==
    \/ prefix = "data-" /\ v \in {"data-v-1a2b3c4d", "data-testid", "data-label"}
    \/ prefix = "aria-" /\ v \in {"aria-label", "aria-labelledby"}

Min(S) == CHOOSE x \in S : \A y \in S : x <= y
SeqToSet(s) == {s[i] : i \in DOMAIN s}
RECURSIVE SelectIdx(_, _, _)
\* the subsequence of s at the indices in keep, in order
SelectIdx(s, keep, i) ==
    IF i > Len(s) THEN << >>
    ELSE (IF i \in keep THEN <<s[i]>> ELSE << >>) \o SelectIdx(s, keep, i + 1)
\* Array.prototype.slice(0, k)
Take(s, k) == SubSeq(s, 1, IF Len(s) < k THEN Len(s) ELSE k)
RECURSIVE Flatten(_)
Flatten(ss) == IF ss = << >> THEN << >> ELSE Head(ss) \o Flatten(Tail(ss))
RECURSIVE SetToSeq(_)
\* the elements of a set of numbers in increasing order (document order)
SetToSeq(S) == IF S = {} THEN << >> ELSE <<Min(S)>> \o SetToSeq(S \ {Min(S)})

(***************************************************************************)
(* The tree.                                                               *)
(***************************************************************************)
\* an element: parent is the parentElement (0: none), host is the element
\* whose shadow root contains it (0: the element is in the document tree),
\* ns tells an HTML element from an SVG one, text is its one text-node
\* child ("": none), bad marks an element whose getComputedStyle throws
Node(parent, tag, attrs, text) ==
    [parent |-> parent, tag |-> tag, ns |-> "html", attrs |-> attrs,
     text |-> text, render |-> "shown", host |-> 0, bad |-> FALSE]
SvgNode(parent, tag, attrs, text) ==
    [Node(parent, tag, attrs, text) EXCEPT !.ns = "svg"]
ShadowNode(parent, host, tag, attrs, text) ==
    [Node(parent, tag, attrs, text) EXCEPT !.host = host]
HtmlEl == Node(0, "html", << >>, "")
BodyEl == Node(1, "body", << >>, "")
\* document.body
body == 2
IdAttr(v) == IF v = "" THEN << >> ELSE << <<"id", v>> >>

\* element.getAttribute(a), with null read as ""
AttrVal(d, n, a) ==
    LET s == {i \in DOMAIN d[n].attrs : d[n].attrs[i][1] = a}
    IN IF s = {} THEN "" ELSE d[n].attrs[Min(s)][2]
\* element.id
ElId(d, n) == AttrVal(d, n, "id")
\* element.className of an HTML element (an SVG element has an
\* SVGAnimatedString there, see IsSvgEl)
ClassName(d, n) == AttrVal(d, n, "class")
IsSvgEl(d, n) == d[n].ns = "svg"
\* element.parentElement.children
ChildrenOf(d, p) == {n \in DOMAIN d : d[n].parent = p}
\* sibling.tagName === element.tagName
SameTagName(d, a, b) == d[a].tag = d[b].tag /\ d[a].ns = d[b].ns
RECURSIVE Ancestors(_, _)
Ancestors(d, n) ==
    IF d[n].parent = 0 THEN {} ELSE {d[n].parent} \cup Ancestors(d, d[n].parent)
\* current.getRootNode() instanceof ShadowRoot
InShadowRoot(d, n) == d[n].host # 0

(***************************************************************************)
(* Expressions and the oracle (document.evaluate).                         *)
(***************************************************************************)
\* a string literal as the code writes it into an expression: the quote
\* character used around val, or a concat(...) call
Lit(q, v) == [q |-> q, val |-> v]
\* `'${v}'`: v pasted between single quotes
rawQuote(v) == Lit("'", v)
escapeXPath(text) ==
    IF text = "" THEN Lit("'", "")
    ELSE IF HasApos(text) /\ ~HasQuot(text) THEN Lit("\"", text)
    ELSE IF HasQuot(text) /\ ~HasApos(text) THEN Lit("'", text)
    ELSE IF HasApos(text) /\ HasQuot(text) THEN Lit("concat", text)
    ELSE Lit("'", text)
\* the literal is one the XPath grammar reads back as val
LitOk(l) ==
    /\ l.q = "'" => ~HasApos(l.val)
    /\ l.q = "\"" => ~HasQuot(l.val)
NoLit == Lit("'", "")

\* predicates, [kind, name, lit, k]:
\*   attrEq        [@name=lit]
\*   attrContains  [contains(@name, lit)]
\*   textEq        [text()=lit]
\*   textContains  [contains(text(), lit)]
\*   normTextEq    [normalize-space(text())=lit]
\*   textEqOrHas   [text()=lit or contains(text(), lit)]
\*   index         [k]
\*   nameIs        [name()='name']            (written before the others: *[name()='svg'])
\*   self          [self::name]
\*   childText     [name[text()=lit]]
\*   childNameText [*[name()='name'][text()=lit]]
\*   countDesc     [count(.//name)=k]
\*   countDescName [count(.//*[name()='name'])=k]
\*   descAttr      [.//name[@href=lit]]
\*   descNameAttr  [.//*[name()='name'][@href=lit]]
\*   typeAndValue  [@type='name' and @value=lit]
\*   roleAndText   [@role='name' and text()=lit]
Pred(kind, name, lit, k) == [kind |-> kind, name |-> name, lit |-> lit, k |-> k]
AttrEq(name, lit) == Pred("attrEq", name, lit, 0)
AttrContains(name, lit) == Pred("attrContains", name, lit, 0)
TextEq(lit) == Pred("textEq", "", lit, 0)
TextContains(lit) == Pred("textContains", "", lit, 0)
NormTextEq(lit) == Pred("normTextEq", "", lit, 0)
Index(k) == Pred("index", "", NoLit, k)
NameIs(name) == Pred("nameIs", name, NoLit, 0)

\* a location step: sep is the text between the previous step and this one
\* ("/" or "//" in a well-formed expression), axis the axis it names
\* (child when none is written), test the name test ("*": any element)
Step(sep, axis, test, preds) ==
    [sep |-> sep, axis |-> axis, test |-> test, preds |-> preds]
\* an expression: its steps and, for (steps)[k], the index k (0: none)
Path(steps) == [steps |-> steps, pick |-> 0]
NoXPath == [steps |-> << >>, pick |-> 0]

\* nodes document.evaluate can see: the document tree, not shadow trees
LightNodes(d) == {n \in DOMAIN d : d[n].host = 0}
\* child elements of the context node c in the document tree (0: the
\* document node, whose child is <html>)
Kids(d, c) == {n \in LightNodes(d) : d[n].parent = c}
Descendants(d, c) ==
    IF c = 0 THEN LightNodes(d) ELSE {n \in LightNodes(d) : c \in Ancestors(d, n)}
\* a name test: in an HTML document an unprefixed name selects elements of
\* the HTML namespace only; * selects every element
TestOk(d, n, test) == test = "*" \/ (d[n].tag = test /\ d[n].ns = "html")
\* name() = 'x'
NameOk(d, n, name) == d[n].tag = name

PredHolds(d, n, pos, p) ==
    CASE p.kind = "attrEq" ->
           \E i \in DOMAIN d[n].attrs :
              d[n].attrs[i][1] = p.name /\ d[n].attrs[i][2] = p.lit.val
      [] p.kind = "attrContains" ->
           \E i \in DOMAIN d[n].attrs :
              d[n].attrs[i][1] = p.name /\ StrContains(d[n].attrs[i][2], p.lit.val)
      [] p.kind = "textEq" -> d[n].text # "" /\ d[n].text = p.lit.val
      [] p.kind = "textContains" -> d[n].text # "" /\ StrContains(d[n].text, p.lit.val)
      [] p.kind = "normTextEq" -> d[n].text # "" /\ Trim(d[n].text) = p.lit.val
      [] p.kind = "textEqOrHas" -> d[n].text # "" /\ StrContains(d[n].text, p.lit.val)
      [] p.kind = "index" -> pos = p.k
      [] p.kind = "nameIs" -> NameOk(d, n, p.name)
      [] p.kind = "self" -> TestOk(d, n, p.name)
      [] p.kind = "childText" ->
           \E c \in Kids(d, n) : TestOk(d, c, p.name) /\ d[c].text # ""
                                   /\ d[c].text = p.lit.val
      [] p.kind = "childNameText" ->
           \E c \in Kids(d, n) : NameOk(d, c, p.name) /\ d[c].text # ""
                                   /\ d[c].text = p.lit.val
      [] p.kind = "countDesc" ->
           Cardinality({c \in Descendants(d, n) : TestOk(d, c, p.name)}) = p.k
      [] p.kind = "countDescName" ->
           Cardinality({c \in Descendants(d, n) : NameOk(d, c, p.name)}) = p.k
      [] p.kind = "descAttr" ->
           \E c \in Descendants(d, n) :
              TestOk(d, c, p.name) /\ AttrVal(d, c, "href") # ""
              /\ AttrVal(d, c, "href") = p.lit.val
      [] p.kind = "descNameAttr" ->
           \E c \in Descendants(d, n) :
              NameOk(d, c, p.name) /\ AttrVal(d, c, "href") # ""
              /\ AttrVal(d, c, "href") = p.lit.val
      [] p.kind = "typeAndValue" ->
           AttrVal(d, n, "type") = p.name /\ AttrVal(d, n, "value") # ""
           /\ AttrVal(d, n, "value") = p.lit.val
      [] p.kind = "roleAndText" ->
           AttrVal(d, n, "role") = p.name /\ d[n].text # "" /\ d[n].text = p.lit.val
      [] OTHER -> FALSE

\* the nodes of axis `axis` from context node c
AxisNodes(d, c, axis) ==
    CASE axis = "child" -> Kids(d, c)
      [] axis = "descendant" -> Descendants(d, c)
      [] axis = "following-sibling" ->
           IF c = 0 THEN {} ELSE {n \in Kids(d, d[c].parent) : n > c}
      [] axis = "preceding-sibling" ->
           IF c = 0 THEN {} ELSE {n \in Kids(d, d[c].parent) : n < c}
      [] axis = "parent" -> IF c = 0 \/ d[c].parent = 0 THEN {} ELSE {d[c].parent}
      [] OTHER -> {}

RECURSIVE ApplyPreds(_, _, _, _)
\* the predicates of a step filter its node list one after the other; the
\* position of a node is its rank in the list the previous predicate left
ApplyPreds(d, S, preds, i) ==
    IF i > Len(preds) THEN S
    ELSE ApplyPreds(d,
            {n \in S : PredHolds(d, n, Cardinality({m \in S : m <= n}), preds[i])},
            preds, i + 1)

\* one step from the context set C: "//" is /descendant-or-self::node()/
EvalStep(d, C, st) ==
    LET from == IF st.sep = "//" THEN C \cup UNION {Descendants(d, c) : c \in C}
                ELSE C
    IN UNION { ApplyPreds(d, {n \in AxisNodes(d, c, st.axis) : TestOk(d, n, st.test)},
                          st.preds, 1) : c \in from }

RECURSIVE EvalSteps(_, _, _, _)
EvalSteps(d, C, steps, i) ==
    IF i > Len(steps) THEN C ELSE EvalSteps(d, EvalStep(d, C, steps[i]), steps, i + 1)

\* the expression parses: every separator is "/" or "//" and every
\* literal reads back as written
WellFormed(x) ==
    /\ x.steps # << >>
    /\ \A i \in DOMAIN x.steps :
          /\ x.steps[i].sep \in {"/", "//"}
          /\ \A j \in DOMAIN x.steps[i].preds : LitOk(x.steps[i].preds[j].lit)

\* document.evaluate(xpath, document, ...): err when it throws, else the
\* node set (document order is the order of the node numbers)
\* (expr)[pick] over the node set `all` of expr; pick 0: no index
PickOf(all, pick) ==
    IF pick = 0 THEN all
    ELSE IF Cardinality(all) < pick THEN {}
    ELSE {n \in all : Cardinality({m \in all : m <= n}) = pick}
Evaluate(d, x) ==
    IF ~WellFormed(x) THEN [err |-> TRUE, nodes |-> {}]
    ELSE [err |-> FALSE, nodes |-> PickOf(EvalSteps(d, {0}, x.steps, 1), x.pick)]

\* result.snapshotLength === 1 inside try/catch
\* snapshotLength === 1 of an evaluation that did not throw
IsSingle(r) == ~r.err /\ Cardinality(r.nodes) = 1
isUniqueXPath(d, x) == IsSingle(Evaluate(d, x))

\* XPathResult.FIRST_ORDERED_NODE_TYPE: the first node in document order
\* singleNodeValue === targetElement of an evaluation that did not throw
FirstIs(r, target) == ~r.err /\ r.nodes # {} /\ Min(r.nodes) = target
validateXPathFirst(d, x, target) == FirstIs(Evaluate(d, x), target)
validateXPath(d, x, target) == validateXPathFirst(d, x, target)

\* first element of a list of expressions that validates, NoXPath if none
RECURSIVE FirstValid(_, _, _, _)
FirstValid(d, xs, target, i) ==
    IF i > Len(xs) THEN NoXPath
    ELSE IF validateXPath(d, xs[i], target) THEN xs[i]
    ELSE FirstValid(d, xs, target, i + 1)

\* the non-null elements of a list of expressions, in order
NonNull(xs) == SelectIdx(xs, {i \in DOMAIN xs : xs[i] # NoXPath}, 1)
\* the first non-null element, NoXPath if none
FirstNonNull(xs) == IF NonNull(xs) = << >> THEN NoXPath ELSE NonNull(xs)[1]
\* x || y
OrElse(x, y) == IF x # NoXPath THEN x ELSE y

(***************************************************************************)
(* Utils.                                                                  *)
(***************************************************************************)
\* window.getComputedStyle(element) throws for this element
StyleThrows(d, n) == d[n].bad
\* the value Utils.getVisibleText returns when it returns
getVisibleText(d, n) ==
    IF d[n].render \in {"display-none", "visibility-hidden", "opacity-0"} THEN ""
    ELSE Trim(d[n].text)

getElementIndex(d, n) ==
    IF d[n].parent = 0 THEN 1
    ELSE Cardinality({m \in ChildrenOf(d, d[n].parent) : SameTagName(d, m, n) /\ m <= n})

\* a name matches one of dynamicPatterns:
\*   a304c4ac    /^[a-f0-9]{6,}$/i, /^[a-z][0-9a-f]{7}$/i, /^[a-z0-9]{8,12}$/i
\*   css-1a2b3c  /^[a-z0-9]+-[a-f0-9]{5,}$/i, /^css-[a-z0-9]+$/i
\*   1a2b3c4d    /^[a-f0-9]{6,}$/i
IsDynamicName(v) == v \in {"a304c4ac", "css-1a2b3c", "1a2b3c4d"}
\* an id matches one of idPatterns:  app-root  /^app-[a-z0-9-]+$/i
IsFrameworkIdName(v) == v \in {"app-root"}
\* the filter predicate of Utils.filterFrameworkGeneratedNames
KeepName(name, type) ==
    /\ name # "" /\ Len(name) >= 2
    /\ ~IsDynamicName(name)
    /\ type = "id" => ~IsFrameworkIdName(name)
filterFrameworkGeneratedNames(names, type) ==
    SelectIdx(names, {i \in DOMAIN names : KeepName(names[i], type)}, 1)
\* className is the class string of the element
getFilteredClasses(className) ==
    IF className = "" THEN << >>
    ELSE filterFrameworkGeneratedNames(SplitWs(className), "class")
\* null is ""
getValidId(id) ==
    IF id = "" THEN ""
    ELSE IF filterFrameworkGeneratedNames(<<id>>, "id") # << >> THEN id ELSE ""
isValidId(id) == getValidId(id) # ""

\* a value matches one of randomValuePatterns:
\*   a304c4ac    /^[a-f0-9]{8}$/i
\*   1a2b3c4d    /^[a-f0-9]{8}$/i
\*   css-1a2b3c  /^[a-z]+-[a-f0-9]{5,}$/i
isRandomGeneratedValue(v) == v \in {"a304c4ac", "css-1a2b3c", "1a2b3c4d"}
\* an attribute name matches a framework pattern:
\*   data-v-1a2b3c4d  /^data-v-[a-f0-9]{8}$/i
FrameworkAttrName(name) == name \in {"data-v-1a2b3c4d"}
isFrameworkAttribute(name, value) ==
    \/ FrameworkAttrName(name)
    \/ /\ isRandomGeneratedValue(value)
       /\ name \in {"aria-labelledby", "aria-describedby", "aria-controls",
                    "aria-owns", "for", "form", "list", "headers"}
\* a value matches one of hashPatterns of isStableDataAttribute
LooksLikeHash(v) == v \in {"a304c4ac", "css-1a2b3c", "1a2b3c4d"}
isStableDataAttribute(name, value) ==
    /\ StartsWith(name, "data-")
    /\ \/ name \in {"data-testid", "data-test", "data-cy", "data-qa",
                    "data-automation", "data-role", "data-action", "data-target",
                    "data-toggle", "data-dismiss", "data-placement",
                    "data-content", "data-original-title"}
       \/ (~LooksLikeHash(value) /\ value # "")

\* the classification of one attribute in Utils.getStableAttributes:
\* "high", "medium", "low", or "" when the attribute is skipped
StablePriority(name, value) ==
    IF isFrameworkAttribute(name, value) THEN ""
    ELSE IF value = "" /\ name \notin {"checked", "selected", "disabled", "readonly"}
         THEN ""
    ELSE IF name \in {"id", "name", "title", "alt", "role", "type"} THEN "high"
    ELSE IF (StartsWith(name, "aria-") \/ name \in {"placeholder", "value"})
            /\ ~isRandomGeneratedValue(value) THEN "medium"
    ELSE IF ~StartsWith(name, "data-") \/ isStableDataAttribute(name, value) THEN "low"
    ELSE ""
RECURSIVE StableFrom(_, _)
\* high-priority attributes are unshifted, the others pushed
StableFrom(attrs, i) ==
    IF i = 0 THEN << >>
    ELSE LET pr == StablePriority(attrs[i][1], attrs[i][2])
             rest == StableFrom(attrs, i - 1)
             rec == [name |-> attrs[i][1], value |-> attrs[i][2], priority |-> pr]
         IN IF pr = "" THEN rest
            ELSE IF pr = "high" THEN <<rec>> \o rest
            ELSE rest \o <<rec>>
getStableAttributes(d, n) == StableFrom(d[n].attrs, Len(d[n].attrs))

RECURSIVE UpFrom(_, _)
\* current, current.parentElement, ... while (current && current !== document.body)
UpFrom(d, c) ==
    IF c = 0 \/ c = body THEN << >> ELSE <<c>> \o UpFrom(d, d[c].parent)

(***************************************************************************)
(* XPathGenerator.generateFallbackXPath.                                   *)
(***************************************************************************)
\* `//${tagName}[@id='${current.id}']`: the segment text starts with "//"
FallbackIdSegment(d, c) ==
    [lead |-> "//", test |-> d[c].tag,
     preds |-> <<AttrEq("id", rawQuote(ElId(d, c)))>>]
\* `${tagName}[${index}]`
FallbackIndexSegment(d, c) ==
    [lead |-> "", test |-> d[c].tag, preds |-> <<Index(getElementIndex(d, c))>>]
\* the walk stops at the first node that has an id at all
FallbackStopsAt(d, c) == ElId(d, c) # ""
RECURSIVE FallbackSegments(_, _)
FallbackSegments(d, c) ==
    IF c = 0 \/ c = body THEN << >>
    ELSE IF FallbackStopsAt(d, c) THEN <<FallbackIdSegment(d, c)>>
    ELSE FallbackSegments(d, d[c].parent) \o <<FallbackIndexSegment(d, c)>>
\* path.join('/') alone: the empty string when the walk collects no segment
generateFallbackXPath_joinOnly(d, e) ==
    LET path == FallbackSegments(d, e)
    IN IF Len(path) > 0
       THEN Path([i \in 1..Len(path) |->
                    Step("/" \o path[i].lead, "child", path[i].test, path[i].preds)])
       ELSE NoXPath
\* '/' + path.join('/'): one "/" in front of every segment's own text
generateFallbackXPath(d, e) ==
    LET path == FallbackSegments(d, e)
    IN IF Len(path) > 0
       THEN Path([i \in 1..Len(path) |->
                    Step("/" \o path[i].lead, "child", path[i].test, path[i].preds)])
       ELSE Path(<<Step("//", "child", d[e].tag, << >>)>>)

(***************************************************************************)
(* Scores.  AnchorStrategy.getScore halves a score, so the model keeps     *)
(* every score in half points: Pts(s) is the JS number s.                  *)
(***************************************************************************)
ScoreUnit == 2
Pts(s) == s * ScoreUnit

RECURSIVE InsertByScore(_, _)
\* r placed after every element whose score is >= its own
InsertByScore(sorted, r) ==
    IF sorted = << >> THEN <<r>>
    ELSE IF Head(sorted).score >= r.score THEN <<Head(sorted)>> \o InsertByScore(Tail(sorted), r)
    ELSE <<r>> \o sorted
RECURSIVE SortByScoreDesc(_)
\* Array.prototype.sort((a, b) => b.score - a.score), which is stable
SortByScoreDesc(rs) ==
    IF rs = << >> THEN << >>
    ELSE InsertByScore(SortByScoreDesc(SubSeq(rs, 1, Len(rs) - 1)), rs[Len(rs)])

(***************************************************************************)
(* RelativeStrategy (priority 60).                                         *)
(***************************************************************************)
\* `//*[@id=${Utils.escapeXPath(id)}]`
ById(id) == Step("//", "child", "*", <<AttrEq("id", escapeXPath(id))>>)
\* `//${tag}[@${name}=${Utils.escapeXPath(value)}]`
ByAttr(tag, name, value) == Step("//", "child", tag, <<AttrEq(name, escapeXPath(value))>>)
\* `//${tag}[contains(@class, ${Utils.escapeXPath(cls)})]`
ByClassHas(tag, cls) == Step("//", "child", tag, <<AttrContains("class", escapeXPath(cls))>>)
\* `//${tag}`, `/${tag}`
Desc(tag) == Step("//", "child", tag, << >>)
Child(tag) == Step("/", "child", tag, << >>)

Relative_isApplicable(d, e) == d[e].parent # 0

\* the attributes of an element, other than style and class and the empty
\* ones, whose `//*[@name=value]` selects exactly one node
Relative_getUniqueAttributes(d, c) ==
    SelectIdx(d[c].attrs,
              {i \in DOMAIN d[c].attrs :
                  /\ d[c].attrs[i][1] \notin {"style", "class"}
                  /\ d[c].attrs[i][2] # ""
                  /\ isUniqueXPath(d, Path(<<ByAttr("*", d[c].attrs[i][1], d[c].attrs[i][2])>>))},
              1)
\* the paths one ancestor contributes in generateParentBasedPaths
Relative_pathsOfAncestor(d, e, c) ==
    LET tag == d[e].tag
        ptag == d[c].tag
        classes == IF IsSvgEl(d, c) THEN << >>
                   ELSE Take(getFilteredClasses(ClassName(d, c)), 2)
        uniq == Take(Relative_getUniqueAttributes(d, c), 2)
    IN (IF ElId(d, c) # "" /\ isValidId(ElId(d, c))
        THEN <<Path(<<ById(ElId(d, c)), Desc(tag)>>), Path(<<ById(ElId(d, c)), Child(tag)>>)>>
        ELSE << >>)
       \o Flatten([i \in 1..Len(classes) |->
                     <<Path(<<ByAttr(ptag, "class", classes[i]), Desc(tag)>>),
                       Path(<<ByClassHas(ptag, classes[i]), Child(tag)>>)>>])
       \o [i \in 1..Len(uniq) |->
              Path(<<ByAttr(ptag, uniq[i][1], uniq[i][2]), Desc(tag)>>)]
Relative_generateParentBasedPaths(d, e) ==
    LET up == UpFrom(d, d[e].parent)
    IN Flatten([i \in 1..Len(up) |-> Relative_pathsOfAncestor(d, e, up[i])])

\* the paths one sibling contributes in generateSiblingBasedPaths
Relative_pathsOfSibling(d, e, sib) ==
    LET tag == d[e].tag
        stext == getVisibleText(d, sib)
    IN (IF ElId(d, sib) # ""
        THEN <<Path(<<ById(ElId(d, sib)),
                      Step("/", IF e > sib THEN "following-sibling" ELSE "preceding-sibling",
                           tag, << >>)>>)>>
        ELSE << >>)
       \o (IF stext # "" /\ Len(stext) <= 30
           THEN <<Path(<<Step("//", "child", d[sib].tag, <<TextEq(escapeXPath(stext))>>),
                         Step("/", "following-sibling", tag, << >>)>>),
                  Path(<<Step("//", "child", d[sib].tag, <<TextEq(escapeXPath(stext))>>),
                         Step("/", "preceding-sibling", tag, << >>)>>)>>
           ELSE << >>)
Relative_generateSiblingBasedPaths(d, e) ==
    IF d[e].parent = 0 THEN << >>
    ELSE LET sibs == SetToSeq(ChildrenOf(d, d[e].parent) \ {e})
         IN Flatten([i \in 1..Len(sibs) |-> Relative_pathsOfSibling(d, e, sibs[i])])

\* NoXPath is null
Relative_getParentPath(d, p) ==
    IF p = 0 \/ p = body THEN NoXPath
    ELSE IF ElId(d, p) # "" /\ isValidId(ElId(d, p)) THEN Path(<<ById(ElId(d, p))>>)
    ELSE LET classes == IF IsSvgEl(d, p) THEN << >> ELSE getFilteredClasses(ClassName(d, p))
             ok == {i \in DOMAIN classes :
                      isUniqueXPath(d, Path(<<ByAttr(d[p].tag, "class", classes[i])>>))}
         IN IF ok = {} THEN NoXPath
            ELSE Path(<<ByAttr(d[p].tag, "class", classes[Min(ok)])>>)
\* the paths of generateIndexBasedPaths for the parent expression parentPath
Relative_indexPaths(d, e, parentPath, allIndex, sameTagIndex, several) ==
    (IF parentPath # NoXPath
     THEN <<Path(parentPath.steps \o <<Step("/", "child", "*", <<Index(allIndex)>>)>>)>>
          \o (IF several
              THEN <<Path(parentPath.steps
                          \o <<Step("/", "child", d[e].tag, <<Index(sameTagIndex)>>)>>)>>
              ELSE << >>)
     ELSE << >>)
    \o (IF several
        THEN <<Path(<<Step("//", "child", d[e].tag, <<Index(sameTagIndex)>>)>>)>>
        ELSE << >>)
Relative_generateIndexBasedPaths(d, e) ==
    IF d[e].parent = 0 THEN << >>
    ELSE Relative_indexPaths(d, e, Relative_getParentPath(d, d[e].parent),
            Cardinality({m \in ChildrenOf(d, d[e].parent) : m <= e}),
            Cardinality({m \in ChildrenOf(d, d[e].parent) : SameTagName(d, m, e) /\ m <= e}),
            Cardinality({m \in ChildrenOf(d, d[e].parent) : SameTagName(d, m, e)}) > 1)
\* NoXPath is null
Relative_generate(d, e) ==
    FirstValid(d,
               Relative_generateParentBasedPaths(d, e)
               \o Relative_generateSiblingBasedPaths(d, e)
               \o Relative_generateIndexBasedPaths(d, e),
               e, 1)
\* current.id of some ancestor below body is non-empty
Relative_hasAncestorWithId(d, e) ==
    \E c \in SeqToSet(UpFrom(d, d[e].parent)) : ElId(d, c) # ""
Relative_getScore(d, e) ==
    LET depth == Len(UpFrom(d, e))
    IN Pts(60) + (IF Relative_hasAncestorWithId(d, e) THEN Pts(20) ELSE 0)
       + (IF 20 - depth > 0 THEN Pts(20 - depth) ELSE 0)

(***************************************************************************)
(* ContainerContextStrategy (priority 90).                                 *)
(***************************************************************************)
\* the indices of the attributes a loop over element.attributes visits
\* when it skips the names in `skip`
AttrIdx(d, c, skip) == {i \in DOMAIN d[c].attrs : d[c].attrs[i][1] \notin skip}
\* element.className.split(/\s+/).filter(cls => cls) through getFilteredClasses
\* (typeof className === 'string' fails for an SVG element)
FilteredClassesOf(d, c) ==
    IF IsSvgEl(d, c) \/ ClassName(d, c) = "" THEN << >>
    ELSE filterFrameworkGeneratedNames(SplitWs(ClassName(d, c)), "class")

Container_hasUniqueIdentifier(d, c) ==
    \/ /\ getValidId(ElId(d, c)) # ""
       /\ isUniqueXPath(d, Path(<<ById(getValidId(ElId(d, c)))>>))
    \/ \E i \in DOMAIN FilteredClassesOf(d, c) :
          isUniqueXPath(d, Path(<<ByClassHas("*", FilteredClassesOf(d, c)[i])>>))
    \/ \E i \in AttrIdx(d, c, {"style", "class", "id"}) :
          isUniqueXPath(d, Path(<<ByAttr("*", d[c].attrs[i][1], d[c].attrs[i][2])>>))

Container_isSemanticContainer(d, c) ==
    \/ d[c].tag \in {"main", "section", "article", "aside", "nav", "header", "footer",
                     "form", "fieldset", "table", "tbody", "thead", "tfoot",
                     "ul", "ol", "dl", "figure", "blockquote", "details"}
    \/ AttrVal(d, c, "role") \in {"main", "navigation", "banner", "contentinfo",
                                  "complementary", "region", "article", "section", "form",
                                  "search", "dialog", "tabpanel", "group", "list",
                                  "listbox", "menu", "menubar"}
    \/ /\ ~IsSvgEl(d, c)
       /\ ClassName(d, c) # ""
       /\ \E kw \in {"container", "wrapper", "content", "main", "section", "panel",
                     "card", "box", "widget", "module", "component"} :
             StrContains(ClassName(d, c), kw)

\* an ancestor is pushed once for each of the two tests it passes
Container_findUniqueContainers(d, e) ==
    LET up == UpFrom(d, d[e].parent)
    IN Flatten([i \in 1..Len(up) |->
                  (IF Container_hasUniqueIdentifier(d, up[i]) THEN <<up[i]>> ELSE << >>)
                  \o (IF Container_isSemanticContainer(d, up[i]) THEN <<up[i]>> ELSE << >>)])

\* NoXPath is null
Container_getContainerXPath(d, c) ==
    IF getValidId(ElId(d, c)) # "" THEN Path(<<ById(getValidId(ElId(d, c)))>>)
    ELSE LET classes == FilteredClassesOf(d, c)
             okc == {i \in DOMAIN classes :
                       isUniqueXPath(d, Path(<<ByClassHas(d[c].tag, classes[i])>>))}
             oka == {i \in AttrIdx(d, c, {"style", "class", "id"}) :
                       isUniqueXPath(d, Path(<<ByAttr(d[c].tag, d[c].attrs[i][1],
                                                      d[c].attrs[i][2])>>))}
         IN IF okc # {} THEN Path(<<ByClassHas(d[c].tag, classes[Min(okc)])>>)
            ELSE IF oka # {}
                 THEN Path(<<ByAttr(d[c].tag, d[c].attrs[Min(oka)][1], d[c].attrs[Min(oka)][2])>>)
            ELSE NoXPath

Container_isApplicable(d, e) ==
    getVisibleText(d, e) # "" /\ Container_findUniqueContainers(d, e) # << >>

\* the four formulations under one container expression
Container_formulations(cx, tag, text) ==
    <<Path(cx.steps \o <<Step("//", "child", tag, <<TextEq(escapeXPath(text))>>)>>),
      Path(cx.steps \o <<Step("//", "child", "*", <<TextEq(escapeXPath(text))>>)>>),
      Path(cx.steps \o <<Step("//", "child", tag, <<TextContains(escapeXPath(text))>>)>>),
      Path(cx.steps \o <<Step("//", "child", "*", <<TextContains(escapeXPath(text))>>)>>)>>
\* the expressions of a list of containers
Container_expressions(d, cs) == [i \in DOMAIN cs |-> Container_getContainerXPath(d, cs[i])]
\* the formulations under every container that has an expression
Container_allFormulations(cxs, tag, text) ==
    Flatten([i \in DOMAIN cxs |->
               IF cxs[i] = NoXPath THEN << >> ELSE Container_formulations(cxs[i], tag, text)])
Container_generate(d, e) ==
    IF getVisibleText(d, e) = "" THEN NoXPath
    ELSE FirstValid(d,
            Container_allFormulations(
                Container_expressions(d, Container_findUniqueContainers(d, e)),
                d[e].tag, getVisibleText(d, e)),
            e, 1)
\* the score for the list of containers found
Container_scoreOf(d, cs) ==
    Pts(90) + Pts(Len(cs) * 10)
    + (IF \E i \in DOMAIN cs : ElId(d, cs[i]) # "" THEN Pts(20) ELSE 0)
Container_getScore(d, e) == Container_scoreOf(d, Container_findUniqueContainers(d, e))

(***************************************************************************)
(* AnchorStrategy (priority 95).                                           *)
(***************************************************************************)
\* the score of evaluateElementUniqueness, in half points
Anchor_evaluateElementUniqueness(d, c) ==
    LET text == getVisibleText(d, c)
    IN (IF getValidId(ElId(d, c)) # ""
           /\ isUniqueXPath(d, Path(<<ById(getValidId(ElId(d, c)))>>))
        THEN Pts(50) ELSE 0)
       + (IF text # "" /\ Len(text) <= 30
             /\ isUniqueXPath(d, Path(<<Step("//", "child", "*", <<TextEq(escapeXPath(text))>>)>>))
          THEN Pts(40) ELSE 0)
       + (IF \E i \in AttrIdx(d, c, {"style", "class"}) :
                isUniqueXPath(d, Path(<<ByAttr("*", d[c].attrs[i][1], d[c].attrs[i][2])>>))
          THEN Pts(30) ELSE 0)
       + (IF \E i \in DOMAIN FilteredClassesOf(d, c) :
                isUniqueXPath(d, Path(<<ByClassHas("*", FilteredClassesOf(d, c)[i])>>))
          THEN Pts(25) ELSE 0)

AnchorRec(c, rel, score) == [element |-> c, relationship |-> rel, score |-> score]
\* anchors.push(...) when the uniqueness score is positive
AnchorIf(c, rel, uniqueness, penalty) ==
    IF uniqueness > 0 THEN <<AnchorRec(c, rel, uniqueness - penalty)>> ELSE << >>
Anchor_findSiblingAnchors(d, e) ==
    IF d[e].parent = 0 THEN << >>
    ELSE Flatten([i \in 1..Cardinality(ChildrenOf(d, d[e].parent) \ {e}) |->
            AnchorIf(SetToSeq(ChildrenOf(d, d[e].parent) \ {e})[i],
                     IF SetToSeq(ChildrenOf(d, d[e].parent) \ {e})[i] < e
                     THEN "preceding-sibling" ELSE "following-sibling",
                     Anchor_evaluateElementUniqueness(d,
                         SetToSeq(ChildrenOf(d, d[e].parent) \ {e})[i]),
                     0)])
Anchor_findParentAnchors(d, e) ==
    Flatten([i \in 1..Len(Take(UpFrom(d, d[e].parent), 3)) |->
        AnchorIf(UpFrom(d, d[e].parent)[i], "ancestor",
                 Anchor_evaluateElementUniqueness(d, UpFrom(d, d[e].parent)[i]),
                 Pts(i * 5))])
Anchor_findChildAnchors(d, e) ==
    Flatten([i \in 1..Cardinality(ChildrenOf(d, e)) |->
        AnchorIf(SetToSeq(ChildrenOf(d, e))[i], "descendant",
                 Anchor_evaluateElementUniqueness(d, SetToSeq(ChildrenOf(d, e))[i]),
                 Pts(10))])
Anchor_findAnchorElements(d, e) ==
    SortByScoreDesc(Anchor_findSiblingAnchors(d, e) \o Anchor_findParentAnchors(d, e)
                    \o Anchor_findChildAnchors(d, e))
Anchor_isApplicable(d, e) == Anchor_findAnchorElements(d, e) # << >>
\* the other children of the parent of e
SiblingsOf(d, e) == IF d[e].parent = 0 THEN {} ELSE ChildrenOf(d, d[e].parent) \ {e}
\* evaluateElementUniqueness reads Utils.getVisibleText of every sibling, of
\* up to three ancestors below body and of every child, and
\* generateAnchorBasedPaths that of the target
Anchor_throws(d, e) ==
    \/ \E c \in SiblingsOf(d, e) \cup SeqToSet(Take(UpFrom(d, d[e].parent), 3))
                \cup ChildrenOf(d, e) : StyleThrows(d, c)
    \/ StyleThrows(d, e) /\ Anchor_isApplicable(d, e)

\* NoXPath is null
Anchor_getAnchorXPath(d, a) ==
    LET text == getVisibleText(d, a)
        byText == Path(<<Step("//", "child", d[a].tag, <<TextEq(escapeXPath(text))>>)>>)
        oka == {i \in AttrIdx(d, a, {"style", "class"}) :
                  isUniqueXPath(d, Path(<<ByAttr(d[a].tag, d[a].attrs[i][1], d[a].attrs[i][2])>>))}
    IN IF getValidId(ElId(d, a)) # "" THEN Path(<<ById(getValidId(ElId(d, a)))>>)
       ELSE IF text # "" /\ Len(text) <= 30 /\ isUniqueXPath(d, byText) THEN byText
       ELSE IF oka # {}
            THEN Path(<<ByAttr(d[a].tag, d[a].attrs[Min(oka)][1], d[a].attrs[Min(oka)][2])>>)
       ELSE NoXPath

\* a sequence of steps with a predicate appended to its last step
WithPred(steps, p) ==
    [i \in 1..Len(steps) |->
        IF i = Len(steps) THEN [steps[i] EXCEPT !.preds = @ \o <<p>>] ELSE steps[i]]
Anchor_generateAnchorBasedPaths(d, ax, rel, tag, e) ==
    LET paths ==
          CASE rel = "preceding-sibling" ->
                 <<ax.steps \o <<Step("/", "following-sibling", tag, << >>)>>,
                   ax.steps \o <<Step("/", "following-sibling", "*", <<Pred("self", tag, NoLit, 0)>>)>> >>
            [] rel = "following-sibling" ->
                 <<ax.steps \o <<Step("/", "preceding-sibling", tag, << >>)>>,
                   ax.steps \o <<Step("/", "preceding-sibling", "*", <<Pred("self", tag, NoLit, 0)>>)>> >>
            [] rel = "ancestor" ->
                 <<ax.steps \o <<Step("//", "child", tag, << >>)>>,
                   ax.steps \o <<Step("/", "descendant", tag, << >>)>> >>
            [] rel = "descendant" ->
                 <<ax.steps \o <<Step("/", "parent", "*", << >>), Step("//", "child", tag, << >>)>>,
                   ax.steps \o <<Step("/", "parent", "*", << >>), Step("//", "child", tag, << >>)>> >>
            [] OTHER -> << >>
        text == getVisibleText(d, e)
    IN [i \in 1..Len(paths) |-> Path(paths[i])]
       \o (IF text # ""
           THEN [i \in 1..Len(paths) |-> Path(WithPred(paths[i], TextEq(escapeXPath(text))))]
           ELSE << >>)
\* the expression of every anchor, with the anchor's relationship
Anchor_expressions(d, anchors) ==
    [i \in DOMAIN anchors |->
        [rel |-> anchors[i].relationship, ax |-> Anchor_getAnchorXPath(d, anchors[i].element)]]
\* the paths of every anchor that has an expression
Anchor_allPaths(d, e, as) ==
    Flatten([i \in DOMAIN as |->
               IF as[i].ax = NoXPath THEN << >>
               ELSE Anchor_generateAnchorBasedPaths(d, as[i].ax, as[i].rel, d[e].tag, e)])
Anchor_generate(d, e) ==
    FirstValid(d, Anchor_allPaths(d, e, Anchor_expressions(d, Anchor_findAnchorElements(d, e))),
               e, 1)
\* Math.min(anchors.length * 5, 25) + Math.min(anchors[0].score / 2, 25)
Anchor_scoreOf(anchors) ==
    Pts(95)
    + (IF anchors = << >> THEN 0
       ELSE Pts(IF Len(anchors) * 5 < 25 THEN Len(anchors) * 5 ELSE 25)
            + (IF anchors[1].score < Pts(50) THEN anchors[1].score \div ScoreUnit
               ELSE Pts(25)))
Anchor_getScore(d, e) == Anchor_scoreOf(Anchor_findAnchorElements(d, e))

(***************************************************************************)
(* AttributeStrategy (priority 100).                                       *)
(***************************************************************************)
Attribute_isApplicable(d, e) == getStableAttributes(d, e) # << >>

\* `//*[@${name}='${value}']`, `//${tag}[@${name}='${value}']`: the value is
\* pasted between single quotes as it is
RawAttr(tag, name, value) == Path(<<Step("//", "child", tag, <<AttrEq(name, rawQuote(value))>>)>>)
RawClassHas(tag, cls) ==
    Path(<<Step("//", "child", tag, <<AttrContains("class", rawQuote(cls))>>)>>)
\* the id literal of the two id formulations
Attribute_idLiteral(v) == rawQuote(v)
Attribute_idFormulations(d, e, v) ==
    <<Path(<<Step("//", "child", "*", <<AttrEq("id", Attribute_idLiteral(v))>>)>>),
      Path(<<Step("//", "child", d[e].tag, <<AttrEq("id", Attribute_idLiteral(v))>>)>>)>>
\* the members of the stable list with priority pr
ByPriority(stable, pr) ==
    SelectIdx(stable, {i \in DOMAIN stable : stable[i].priority = pr}, 1)
\* the members of a list of attributes with (without) one of the names
Named(as, names) == SelectIdx(as, {i \in DOMAIN as : as[i].name \in names}, 1)
NotNamed(as, names) == SelectIdx(as, {i \in DOMAIN as : as[i].name \notin names}, 1)
\* low-priority data-* attributes that are stable
StableData(low) ==
    SelectIdx(low, {i \in DOMAIN low :
                      /\ StartsWith(low[i].name, "data-")
                      /\ isStableDataAttribute(low[i].name, low[i].value)}, 1)
\* the formulations for the stable attributes and the filtered classes, in
\* the order generate pushes them
Attribute_formulationsOf(d, e, high, medium, low, classes) ==
    (IF Named(high, {"id"}) # << >> /\ isValidId(Named(high, {"id"})[1].value)
     THEN Attribute_idFormulations(d, e, Named(high, {"id"})[1].value) ELSE << >>)
    \o (IF Named(high, {"name"}) # << >>
        THEN <<RawAttr("*", "name", Named(high, {"name"})[1].value),
               RawAttr(d[e].tag, "name", Named(high, {"name"})[1].value)>>
        ELSE << >>)
    \o Flatten([i \in DOMAIN NotNamed(high, {"id", "name"}) |->
                  <<RawAttr("*", NotNamed(high, {"id", "name"})[i].name,
                            NotNamed(high, {"id", "name"})[i].value),
                    RawAttr(d[e].tag, NotNamed(high, {"id", "name"})[i].name,
                            NotNamed(high, {"id", "name"})[i].value)>>])
    \o [i \in DOMAIN Take(medium, 2) |-> RawAttr("*", medium[i].name, medium[i].value)]
    \o Flatten([i \in DOMAIN Take(classes, 2) |->
                  <<RawAttr("*", "class", classes[i]), RawClassHas("*", classes[i])>>])
    \o (IF Len(classes) > 1
        THEN <<RawAttr("*", "class", classes[1] \o " " \o classes[2])>> ELSE << >>)
    \o [i \in DOMAIN Take(StableData(low), 2) |->
          RawAttr("*", StableData(low)[i].name, StableData(low)[i].value)]
Attribute_formulationsFor(d, e, stable) ==
    Attribute_formulationsOf(d, e, ByPriority(stable, "high"), ByPriority(stable, "medium"),
                             ByPriority(stable, "low"), getFilteredClasses(ClassName(d, e)))
Attribute_formulations(d, e) == Attribute_formulationsFor(d, e, getStableAttributes(d, e))
\* element.className of an SVG element is an object without split, so
\* Utils.getFilteredClasses(element.className) throws a TypeError
Attribute_generateThrows(d, e) == IsSvgEl(d, e)
\* NoXPath is null
Attribute_generate(d, e) == FirstValid(d, Attribute_formulations(d, e), e, 1)
\* tags whose elements have a `name` property
HasNameProperty(tag) ==
    tag \in {"input", "button", "select", "textarea", "form", "a", "img", "iframe"}
Attribute_getScore(d, e) ==
    LET n10 == Len(getFilteredClasses(ClassName(d, e))) * 10
    IN Pts(100)
       + (IF ElId(d, e) # "" /\ isValidId(ElId(d, e)) THEN Pts(50) ELSE 0)
       + (IF HasNameProperty(d[e].tag) /\ AttrVal(d, e, "name") # "" THEN Pts(30) ELSE 0)
       + Pts(IF n10 < 30 THEN n10 ELSE 30)

(***************************************************************************)
(* TextStrategy (priority 110).  getElementIndexInDuplicates,              *)
(* generateContainerBasedXPath, generateAnchorBasedXPath and               *)
(* generateIndexBasedXPath are called by the class but their bodies are    *)
(* not among the sources; they are modelled from section 4.3a of the       *)
(* specification.                                                          *)
(***************************************************************************)
Text_isApplicable(d, e) ==
    Len(getVisibleText(d, e)) > 0 /\ Len(getVisibleText(d, e)) <= 50

\* the snapshot of `//*[text()=T or contains(text(), T)]`
Text_sameTextNodes(d, text) ==
    Evaluate(d, Path(<<Step("//", "child", "*",
                            <<Pred("textEqOrHas", "", escapeXPath(text), 0)>>)>>))
\* the target's 1-based rank among the nodes that carry the text
Text_getElementIndexInDuplicates(d, e, duplicates) ==
    Cardinality({m \in duplicates : m < e}) + 1
\* the record built from the evaluation r of the snapshot expression
Text_duplicateInfo(d, e, r) ==
    IF r.err
    THEN [hasDuplicates |-> FALSE, count |-> 1, elements |-> {}, targetIndex |-> 0]
    ELSE [hasDuplicates |-> r.nodes \ {e} # {},
          count |-> Cardinality(r.nodes \ {e}) + 1,
          elements |-> r.nodes \ {e},
          targetIndex |-> Text_getElementIndexInDuplicates(d, e, r.nodes \ {e})]
Text_detectDuplicateText(d, text, e) == Text_duplicateInfo(d, e, Text_sameTextNodes(d, text))

\* element.closest('button'): 0 when there is none
Closest(d, e, tag) ==
    LET up == {c \in {e} \cup Ancestors(d, e) : d[c].tag = tag}
    IN IF up = {} THEN 0 ELSE CHOOSE c \in up : \A c2 \in up : c2 <= c
\* element.classList.contains(cls)
ClassListContains(d, e, cls) == cls \in SeqToSet(SplitWs(ClassName(d, e)))
Text_isButtonLikeElement(d, e) ==
    \/ d[e].tag = "button"
    \/ d[e].tag = "input" /\ AttrVal(d, e, "type") \in {"button", "submit", "reset"}
    \/ AttrVal(d, e, "role") = "button"
    \/ ClassListContains(d, e, "btn")
    \/ ClassListContains(d, e, "button")
Text_isLinkElement(d, e) == d[e].tag = "a" /\ AttrVal(d, e, "href") # ""

\* `${cx}//${tag}[text()=T]` (null when cx is)
Text_under(d, e, text, cx) ==
    IF cx = NoXPath THEN NoXPath
    ELSE Path(cx.steps \o <<Step("//", "child", d[e].tag, <<TextEq(escapeXPath(text))>>)>>)
\* (1) the expression scoped under the nearest uniquely identifiable or
\* semantic-container ancestor that has an expression of its own
Text_generateContainerBasedXPath(d, e, text) ==
    Text_under(d, e, text,
               FirstNonNull(Container_expressions(d, Container_findUniqueContainers(d, e))))
\* the step from an anchor of relationship rel to the target
Text_anchorStep(d, e, text, rel) ==
    CASE rel = "preceding-sibling" ->
           Step("/", "following-sibling", d[e].tag, <<TextEq(escapeXPath(text))>>)
      [] rel = "following-sibling" ->
           Step("/", "preceding-sibling", d[e].tag, <<TextEq(escapeXPath(text))>>)
      [] OTHER -> Step("//", "child", d[e].tag, <<TextEq(escapeXPath(text))>>)
\* the expression from the first anchor of `as` that has an expression
Text_fromAnchors(d, e, text, as) ==
    IF \A i \in DOMAIN as : as[i].ax = NoXPath THEN NoXPath
    ELSE Path(as[Min({i \in DOMAIN as : as[i].ax # NoXPath})].ax.steps
              \o <<Text_anchorStep(d, e, text,
                       as[Min({i \in DOMAIN as : as[i].ax # NoXPath})].rel)>>)
\* (2) the expression relative to the best nearby unique sibling or ancestor
Text_generateAnchorBasedXPath(d, e, text) ==
    Text_fromAnchors(d, e, text,
        Anchor_expressions(d, SortByScoreDesc(Anchor_findSiblingAnchors(d, e)
                                               \o Anchor_findParentAnchors(d, e))))
\* (3) `(//tag[text()=T])[k]`, k the target's rank among the duplicates
Text_generateIndexBasedXPath(d, e, text, duplicateInfo) ==
    [steps |-> <<Step("//", "child", d[e].tag, <<TextEq(escapeXPath(text))>>)>>,
     pick |-> duplicateInfo.targetIndex]
\* the three formulations in the order generateContextAwareXPath tries them
Text_contextAwareFormulations(d, e, text, duplicateInfo) ==
    <<Text_generateContainerBasedXPath(d, e, text),
      Text_generateAnchorBasedXPath(d, e, text),
      Text_generateIndexBasedXPath(d, e, text, duplicateInfo)>>
Text_generateContextAwareXPath(d, e, text, duplicateInfo) ==
    FirstValid(d, NonNull(Text_contextAwareFormulations(d, e, text, duplicateInfo)), e, 1)

\* the list `strategies` of generate when the text has no duplicate
Text_plainFormulations(d, e, text) ==
    LET T == escapeXPath(text)
        one(test, p) == Path(<<Step("//", "child", test, <<p>>)>>)
        btn == Closest(d, e, "button")
    IN (IF Text_isButtonLikeElement(d, e)
        THEN <<one("button", TextEq(T)),
               one("input", Pred("typeAndValue", "button", T, 0)),
               one("input", Pred("typeAndValue", "submit", T, 0)),
               one("*", Pred("roleAndText", "button", T, 0))>>
        ELSE << >>)
       \o (IF d[e].tag = "span" /\ btn # 0 /\ getVisibleText(d, btn) = text
           THEN <<one("button", TextEq(T)), one("button", TextContains(T)),
                  one("button", NormTextEq(T))>>
           ELSE << >>)
       \o <<one(d[e].tag, TextEq(T)), one(d[e].tag, TextContains(T)),
            one(d[e].tag, NormTextEq(T)), one("*", TextEq(T)), one("*", TextContains(T))>>
\* generate once the text and the duplicate information are known
Text_generateFor(d, e, text, duplicateInfo) ==
    IF text = "" THEN NoXPath
    ELSE IF duplicateInfo.hasDuplicates
         THEN Text_generateContextAwareXPath(d, e, text, duplicateInfo)
    ELSE FirstValid(d, Text_plainFormulations(d, e, text), e, 1)
\* NoXPath is null
Text_generate(d, e) ==
    Text_generateFor(d, e, getVisibleText(d, e),
                     Text_detectDuplicateText(d, getVisibleText(d, e), e))
Text_getScore(d, e) ==
    LET text == getVisibleText(d, e)
    IN Pts(110) + Pts(100)
       + (IF Len(text) <= 10 THEN Pts(50)
          ELSE IF Len(text) <= 20 THEN Pts(30)
          ELSE IF Len(text) <= 30 THEN Pts(5) ELSE 0)
       + (IF Text_isButtonLikeElement(d, e) THEN Pts(50) ELSE 0)
       + (IF Text_isLinkElement(d, e) THEN Pts(30) ELSE 0)
       + (IF Len(text) <= 15 /\ ~Text_detectDuplicateText(d, text, e).hasDuplicates
          THEN Pts(100) ELSE 0)

(***************************************************************************)
(* ElementAnalyzer.analyzeSVGElement and SVGStrategy (priority 85).        *)
(***************************************************************************)
\* targetSvg.querySelectorAll(name): the descendants with that local name
QueryAll(d, c, name) == {n \in DOMAIN d : c \in Ancestors(d, n) /\ d[n].tag = name}
\* the text content of targetSvg.querySelector(name), trimmed, '' if none
QueryText(d, c, name) ==
    IF QueryAll(d, c, name) = {} THEN "" ELSE Trim(d[Min(QueryAll(d, c, name))].text)
\* NoSvg is null
NoSvg == [svgElement |-> 0]
analyzeSVGElement(d, e) ==
    LET svgRoot == Closest(d, e, "svg")
        targetSvg == IF d[e].tag = "svg" THEN e ELSE svgRoot
    IN IF svgRoot = 0 /\ d[e].tag # "svg" THEN NoSvg
       ELSE [svgElement |-> targetSvg,
             isRoot |-> d[e].tag = "svg",
             viewBox |-> AttrVal(d, targetSvg, "viewBox"),
             hasTitle |-> QueryAll(d, targetSvg, "title") # {},
             hasDesc |-> QueryAll(d, targetSvg, "desc") # {},
             titleText |-> QueryText(d, targetSvg, "title"),
             descText |-> QueryText(d, targetSvg, "desc"),
             pathCount |-> Cardinality(QueryAll(d, targetSvg, "path")),
             useElements |-> Cardinality(QueryAll(d, targetSvg, "use")),
             hasAriaLabel |-> AttrVal(d, targetSvg, "aria-label") # "",
             ariaLabelText |-> AttrVal(d, targetSvg, "aria-label")]
\* analysis.basic.isSVG
IsSVG(d, e) == d[e].tag = "svg" \/ Closest(d, e, "svg") # 0
\* the part of ElementAnalyzer.performAnalysis the strategies read
performAnalysis(d, e) == [isSVG |-> IsSVG(d, e), svgInfo |-> analyzeSVGElement(d, e)]
SVG_isApplicable(analysis) == analysis.isSVG
\* the names ElementAnalyzer.analyzeAttributes files under each heading
analyzeAttributes(d, e) ==
    LET at == d[e].attrs
        fw(i) == isFrameworkAttribute(at[i][1], at[i][2])
        pri(i) == at[i][1] \in {"id", "name", "title", "alt", "role", "type"}
        dat(i) == StartsWith(at[i][1], "data-") /\ isStableDataAttribute(at[i][1], at[i][2])
        ari(i) == StartsWith(at[i][1], "aria-") /\ ~isRandomGeneratedValue(at[i][2])
        stable == getStableAttributes(d, e)
    IN [framework |-> {at[i][1] : i \in {j \in DOMAIN at : fw(j)}},
        priority |-> {at[i][1] : i \in {j \in DOMAIN at : ~fw(j) /\ pri(j)}},
        data |-> {at[i][1] : i \in {j \in DOMAIN at : ~fw(j) /\ ~pri(j) /\ dat(j)}},
        aria |-> {at[i][1] : i \in {j \in DOMAIN at : ~fw(j) /\ ~pri(j) /\ ~dat(j) /\ ari(j)}},
        stable |-> {stable[i].name : i \in DOMAIN stable}]

\* attr.name.includes('label') || includes('title') || includes('tooltip')
NameHasLabelWord(name) == name \in {"data-label"}
\* the label one ancestor offers: <<attribute, value>>, << >> if none
SVG_labelOf(d, c) ==
    LET data == {i \in DOMAIN d[c].attrs :
                   /\ StartsWith(d[c].attrs[i][1], "data-")
                   /\ NameHasLabelWord(d[c].attrs[i][1])
                   /\ Trim(d[c].attrs[i][2]) # ""}
    IN IF Trim(AttrVal(d, c, "aria-label")) # ""
       THEN <<"aria-label", Trim(AttrVal(d, c, "aria-label"))>>
       ELSE IF Trim(AttrVal(d, c, "title")) # ""
            THEN <<"title", Trim(AttrVal(d, c, "title"))>>
       ELSE IF data # {}
            THEN <<d[c].attrs[Min(data)][1], Trim(d[c].attrs[Min(data)][2])>>
       ELSE << >>
RECURSIVE SVG_findFrom(_, _, _)
SVG_findFrom(d, current, depth) ==
    IF current = 0 \/ depth >= 3 THEN [element |-> 0]
    ELSE IF SVG_labelOf(d, current) # << >>
         THEN [element |-> current, attribute |-> SVG_labelOf(d, current)[1],
               value |-> SVG_labelOf(d, current)[2]]
    ELSE SVG_findFrom(d, d[current].parent, depth + 1)
\* element 0 is null
SVG_findParentWithLabel(d, svgElement) == SVG_findFrom(d, d[svgElement].parent, 0)

\* `//svg[p]` and `//*[name()='svg'][p]`
SvgPair(p, pn) ==
    <<Path(<<Step("//", "child", "svg", p)>>),
      Path(<<Step("//", "child", "*", <<NameIs("svg")>> \o pn)>>)>>
\* the formulations of each of the eight kinds, in the order written
SVG_kind(d, info, kind) ==
    LET svg == info.svgElement
        parent == SVG_findParentWithLabel(d, svg)
        classes == Take(getFilteredClasses(AttrVal(d, svg, "class")), 2)
        uses == {u \in QueryAll(d, svg, "use") : TRUE}
        href == IF uses = {} THEN "" ELSE AttrVal(d, Min(uses), "href")
    IN CASE kind = 1 ->
              IF info.hasAriaLabel /\ info.ariaLabelText # ""
              THEN SvgPair(<<AttrEq("aria-label", escapeXPath(info.ariaLabelText))>>,
                           <<AttrEq("aria-label", escapeXPath(info.ariaLabelText))>>)
              ELSE << >>
         [] kind = 2 ->
              IF info.hasTitle /\ info.titleText # ""
              THEN SvgPair(<<Pred("childText", "title", escapeXPath(info.titleText), 0)>>,
                           <<Pred("childNameText", "title", escapeXPath(info.titleText), 0)>>)
              ELSE << >>
         [] kind = 3 ->
              IF info.hasDesc /\ info.descText # ""
              THEN SvgPair(<<Pred("childText", "desc", escapeXPath(info.descText), 0)>>,
                           <<Pred("childNameText", "desc", escapeXPath(info.descText), 0)>>)
              ELSE << >>
         [] kind = 4 ->
              IF parent.element # 0
              THEN LET p == Step("//", "child", d[parent.element].tag,
                                 <<AttrEq(parent.attribute, escapeXPath(parent.value))>>)
                   IN <<Path(<<p, Step("//", "child", "svg", << >>)>>),
                        Path(<<p, Step("//", "child", "*", <<NameIs("svg")>>)>>)>>
              ELSE << >>
         [] kind = 5 ->
              Flatten([i \in 1..Len(classes) |->
                         SvgPair(<<AttrContains("class", rawQuote(classes[i]))>>,
                                 <<AttrContains("class", rawQuote(classes[i]))>>)])
         [] kind = 6 ->
              IF info.viewBox # ""
              THEN SvgPair(<<AttrEq("viewBox", rawQuote(info.viewBox))>>,
                           <<AttrEq("viewBox", rawQuote(info.viewBox))>>)
              ELSE << >>
         [] kind = 7 ->
              IF info.pathCount > 0
              THEN SvgPair(<<Pred("countDesc", "path", NoLit, info.pathCount)>>,
                           <<Pred("countDescName", "path", NoLit, info.pathCount)>>)
              ELSE << >>
         [] kind = 8 ->
              IF info.useElements > 0 /\ href # ""
              THEN SvgPair(<<Pred("descAttr", "use", rawQuote(href), 0)>>,
                           <<Pred("descNameAttr", "use", rawQuote(href), 0)>>)
              ELSE << >>
         [] OTHER -> << >>
\* the order in which generate pushes the kinds
\* the class formulations pushed before the labelled-ancestor ones
SVG_order_classFirst == <<1, 2, 3, 5, 4, 6, 7, 8>>
SVG_order == <<1, 2, 3, 4, 5, 6, 7, 8>>
SVG_formulations(d, info) ==
    Flatten([i \in 1..Len(SVG_order) |-> SVG_kind(d, info, SVG_order[i])])
\* `//svg[${index}]`
SVG_generatePositionalXPath(d, svgElement) ==
    Path(<<Step("//", "child", "svg", <<Index(getElementIndex(d, svgElement))>>)>>)
\* NoXPath is null
SVG_generate(d, analysis) ==
    IF analysis.svgInfo = NoSvg THEN NoXPath
    ELSE OrElse(FirstValid(d, SVG_formulations(d, analysis.svgInfo),
                           analysis.svgInfo.svgElement, 1),
                SVG_generatePositionalXPath(d, analysis.svgInfo.svgElement))
SVG_getScore(d, analysis) ==
    LET info == analysis.svgInfo
    IN IF info = NoSvg THEN 0
       ELSE Pts(85)
            + (IF info.hasAriaLabel THEN Pts(40) ELSE 0)
            + (IF info.hasTitle THEN Pts(30) ELSE 0)
            + (IF info.hasDesc THEN Pts(25) ELSE 0)
            + (IF SVG_findParentWithLabel(d, info.svgElement).element # 0 THEN Pts(20) ELSE 0)
            + (IF info.viewBox # "" THEN Pts(15) ELSE 0)
            + (IF AttrVal(d, info.svgElement, "class") # "" THEN Pts(10) ELSE 0)

(***************************************************************************)
(* ShadowDOMStrategy (priority 90).                                        *)
(***************************************************************************)
\* Utils.isInShadowDOM: some element of the parentElement chain has a
\* shadow root as its root node
isInShadowDOM(d, e) == \E c \in {e} \cup Ancestors(d, e) : InShadowRoot(d, c)
Shadow_isApplicable(d, e) == isInShadowDOM(d, e)

\* the text of one host segment: its step and the "//" written after it
Shadow_generatePathToHost(d, host) ==
    IF ElId(d, host) # "" /\ isValidId(ElId(d, host))
    THEN Step("//", "child", "*", <<AttrEq("id", rawQuote(ElId(d, host)))>>)
    ELSE IF FilteredClassesOf(d, host) # << >>
         THEN Step("//", "child", "*",
                   <<AttrContains("class", rawQuote(FilteredClassesOf(d, host)[1]))>>)
    ELSE Step("//", "child", d[host].tag, <<Index(getElementIndex(d, host))>>)
RECURSIVE Shadow_hostSteps(_, _)
\* the host segments from the outermost host to the innermost
Shadow_hostSteps(d, current) ==
    IF current = 0 \/ ~InShadowRoot(d, current) THEN << >>
    ELSE Shadow_hostSteps(d, d[current].host)
         \o <<Shadow_generatePathToHost(d, d[current].host)>>
Shadow_getShadowDOMPath(d, e) == Shadow_hostSteps(d, e)

\* NoXPath is null
Shadow_generateByText(d, e) ==
    LET text == getVisibleText(d, e)
    IN IF text = "" \/ Len(text) > 50 THEN NoXPath
       ELSE Path(<<Step("//", "child", d[e].tag, <<TextEq(escapeXPath(text))>>)>>)
Shadow_generateByAttributes(d, e) ==
    IF ElId(d, e) # "" /\ isValidId(ElId(d, e)) THEN RawAttr("*", "id", ElId(d, e))
    ELSE IF HasNameProperty(d[e].tag) /\ AttrVal(d, e, "name") # ""
         THEN RawAttr("*", "name", AttrVal(d, e, "name"))
    ELSE IF FilteredClassesOf(d, e) # << >> THEN RawClassHas("*", FilteredClassesOf(d, e)[1])
    ELSE NoXPath
Shadow_generateByPosition(d, e) ==
    Path(<<Step("//", "child", d[e].tag, <<Index(getElementIndex(d, e))>>)>>)
Shadow_internalStrategies(d, e) ==
    NonNull(<<Shadow_generateByText(d, e), Shadow_generateByAttributes(d, e),
              Shadow_generateByPosition(d, e)>>)

\* ShadowRoot is a DocumentFragment: it has no evaluate method (only
\* Document and XPathEvaluator have), so shadowRoot.evaluate(...) is a
\* TypeError
ShadowRootHasEvaluate == FALSE
\* the tree an evaluation scoped to the shadow root of host h would see
ShadowView(d, h) ==
    [n \in DOMAIN d |-> [d[n] EXCEPT !.host = IF d[n].host = h THEN 0 ELSE h]]
Shadow_validateInShadowDOM(d, x, e) ==
    /\ ShadowRootHasEvaluate
    /\ validateXPathFirst(ShadowView(d, d[e].host), x, e)
\* `${shadowPath}${xpath}`: the path ends in "//" and the inner expression
\* starts with "//"
Shadow_compose(shadowPath, x) ==
    Path(shadowPath
         \o <<[x.steps[1] EXCEPT !.sep = "//" \o @]>>
         \o SubSeq(x.steps, 2, Len(x.steps)))
\* the first internal expression that validates, composed with the path
Shadow_firstValid(d, e, shadowPath, xs) ==
    IF \A i \in DOMAIN xs : ~Shadow_validateInShadowDOM(d, xs[i], e) THEN NoXPath
    ELSE Shadow_compose(shadowPath,
                        xs[Min({i \in DOMAIN xs : Shadow_validateInShadowDOM(d, xs[i], e)})])
\* NoXPath is null
Shadow_generate(d, e) ==
    IF Shadow_getShadowDOMPath(d, e) = << >> \/ ~InShadowRoot(d, e) THEN NoXPath
    ELSE Shadow_firstValid(d, e, Shadow_getShadowDOMPath(d, e), Shadow_internalStrategies(d, e))
Shadow_getScore(d, e) ==
    LET text == getVisibleText(d, e)
    IN Pts(90) + Pts(20)
       + (IF isValidId(ElId(d, e)) THEN Pts(30) ELSE 0)
       + (IF HasNameProperty(d[e].tag) /\ AttrVal(d, e, "name") # "" THEN Pts(20) ELSE 0)
       + (IF text # "" /\ Len(text) <= 20 THEN Pts(15) ELSE 0)

(***************************************************************************)
(* StrategyManager.                                                        *)
(***************************************************************************)
StrategyRec(name, priority) == [name |-> name, score |-> priority]
\* the strategies in the order initializeStrategies registers them, each
\* with the priority its constructor passes to BaseStrategy
Registered ==
    <<StrategyRec("text", 110), StrategyRec("attribute", 100), StrategyRec("anchor", 95),
      StrategyRec("container-context", 90), StrategyRec("shadow-dom", 90),
      StrategyRec("svg", 85), StrategyRec("relative", 60)>>
\* registerStrategy keeps this.strategies sorted by priority, highest first
Strategies == SortByScoreDesc(Registered)

\* a value handed to registerStrategy: base is `strategy instanceof
\* BaseStrategy`, nth the rank of the registration among all registrations
StrategyObj(name, priority, base, nth) ==
    [name |-> name, score |-> priority, base |-> base, nth |-> nth]
\* this.strategies.push(strategy) without the sort that follows it
registerStrategy_noSort(reg, strategy) == Append(reg, strategy)
\* lines 35-37 of registerStrategy: push, then sort by priority
registerStrategy(reg, strategy) == SortByScoreDesc(Append(reg, strategy))
\* this.strategies.filter(s => s.name !== strategyName)
unregisterStrategy(reg, strategyName) ==
    LET Keep(st) == st.name # strategyName IN SelectSeq(reg, Keep)
RECURSIVE RegisterAll(_, _)
\* the first n registrations of initializeStrategies
RegisterAll(regs, n) ==
    IF n = 0 THEN << >>
    ELSE registerStrategy(RegisterAll(regs, n - 1),
                          StrategyObj(regs[n].name, regs[n].score, TRUE, n))
\* this.strategies once the constructor has run
initializeStrategies == RegisterAll(Registered, Len(Registered))

\* cls matches one of randomPatterns:  css-1a2b3c  /^[a-z]+-[a-f0-9]{5,}$/i
IsRandomClass(cls) == cls \in {"css-1a2b3c"}
\* element.className.split is not a function for an SVG element, whose
\* className is an SVGAnimatedString: hasRandomClasses throws a TypeError
SM_hasRandomClassesThrows(d, e) == IsSvgEl(d, e)
SM_hasRandomClasses(d, e) ==
    /\ ClassName(d, e) # ""
    /\ \E cls \in SeqToSet(SplitWs(ClassName(d, e))) : IsRandomClass(cls)

Strategy_isApplicable(name, d, e, analysis) ==
    CASE name = "text" -> Text_isApplicable(d, e)
      [] name = "attribute" -> Attribute_isApplicable(d, e)
      [] name = "anchor" -> Anchor_isApplicable(d, e)
      [] name = "container-context" -> Container_isApplicable(d, e)
      [] name = "shadow-dom" -> Shadow_isApplicable(d, e)
      [] name = "svg" -> SVG_isApplicable(analysis)
      [] name = "relative" -> Relative_isApplicable(d, e)
      [] OTHER -> FALSE
Strategy_generate(name, d, e, analysis) ==
    CASE name = "text" -> Text_generate(d, e)
      [] name = "attribute" -> Attribute_generate(d, e)
      [] name = "anchor" -> Anchor_generate(d, e)
      [] name = "container-context" -> Container_generate(d, e)
      [] name = "shadow-dom" -> Shadow_generate(d, e)
      [] name = "svg" -> SVG_generate(d, analysis)
      [] name = "relative" -> Relative_generate(d, e)
      [] OTHER -> NoXPath
Strategy_getScore(name, d, e, analysis) ==
    CASE name = "text" -> Text_getScore(d, e)
      [] name = "attribute" -> Attribute_getScore(d, e)
      [] name = "anchor" -> Anchor_getScore(d, e)
      [] name = "container-context" -> Container_getScore(d, e)
      [] name = "shadow-dom" -> Shadow_getScore(d, e)
      [] name = "svg" -> SVG_getScore(d, analysis)
      [] name = "relative" -> Relative_getScore(d, e)
      [] OTHER -> 0
\* the strategy throws on this element; the loop catches it and goes on
Strategy_throws(name, d, e) ==
    \/ name = "attribute" /\ Attribute_generateThrows(d, e)
    \/ name \in {"text", "container-context"} /\ StyleThrows(d, e)
    \/ name = "anchor" /\ Anchor_throws(d, e)
    \/ name = "shadow-dom" /\ isInShadowDOM(d, e) /\ StyleThrows(d, e)
    \/ name = "relative" /\ \E c \in SiblingsOf(d, e) : StyleThrows(d, c)

\* the -50 applied to the candidate of every strategy
SM_penalty_all(name, hasRandomClasses) == IF hasRandomClasses THEN Pts(50) ELSE 0
\* the -50 of a machine-generated class list, applied to 'attribute' only
SM_penalty(name, hasRandomClasses) ==
    IF hasRandomClasses /\ name = "attribute" THEN Pts(50) ELSE 0
\* lines 62-76: the candidate pushed for a non-null xpath (none: << >>)
SM_push(st, xpath, score, hasRandomClasses) ==
    IF xpath = NoXPath THEN << >>
    ELSE <<[strategy |-> st.name, xpath |-> xpath,
            score |-> score - SM_penalty(st.name, hasRandomClasses),
            priority |-> st.score]>>
\* the candidate one strategy pushes onto results (none: << >>)
SM_candidate(st, d, e, analysis) ==
    IF Strategy_throws(st.name, d, e) THEN << >>
    ELSE IF ~Strategy_isApplicable(st.name, d, e, analysis) THEN << >>
    ELSE SM_push(st, Strategy_generate(st.name, d, e, analysis),
                 Strategy_getScore(st.name, d, e, analysis), SM_hasRandomClasses(d, e))
\* results before the sort for the registry reg, in the order of reg
SM_resultsOf(reg, d, e, analysis) ==
    Flatten([i \in 1..Len(reg) |-> SM_candidate(reg[i], d, e, analysis)])
\* the loop without its try/catch: the first strategy that throws ends it
SM_results_stopAtThrow(d, e, analysis) ==
    LET failing == {i \in DOMAIN Strategies : Strategy_throws(Strategies[i].name, d, e)}
    IN SM_resultsOf(IF failing = {} THEN Strategies
                    ELSE SubSeq(Strategies, 1, Min(failing) - 1), d, e, analysis)
\* results before the sort, in the order of this.strategies
SM_results(d, e, analysis) == SM_resultsOf(Strategies, d, e, analysis)
\* a sort that is not stable: candidates of equal score change places
SM_sort_tiesReversed(results) ==
    SortByScoreDesc([i \in 1..Len(results) |-> results[Len(results) + 1 - i]])
\* results.sort((a, b) => b.score - a.score)
SM_sort(results) == SortByScoreDesc(results)
\* null
NoCandidate == [strategy |-> "", xpath |-> NoXPath, score |-> 0, priority |-> 0]
\* results.slice(0, 2): the alternatives taken from the best candidate on
SM_alternatives_fromFirst(results) ==
    SubSeq(results, 1, IF Len(results) < 2 THEN Len(results) ELSE 2)
\* results.slice(1, 3)
SM_alternatives(results) == SubSeq(results, 2, IF Len(results) < 3 THEN Len(results) ELSE 3)
\* lines 86-91: the record built from the sorted results
SM_pack(results) ==
    [success |-> Len(results) > 0,
     primary |-> IF results = << >> THEN NoCandidate ELSE results[1],
     alternatives |-> SM_alternatives(results)]
\* the value StrategyManager.generateXPath returns when it returns
SM_generateXPath(d, e, analysis) == SM_pack(SM_sort(SM_results(d, e, analysis)))

(***************************************************************************)
(* ElementAnalyzer.analyze and XPathGenerator.generateXPath.  An input of  *)
(* generateXPath is a node number of the document, Null, or NoTag (a node  *)
(* without a tagName).                                                     *)
(***************************************************************************)
Null == 0
NoTag == -1
\* !element || !element.tagName
IsInvalidElement(e) == e = Null \/ e = NoTag

RECURSIVE PathFrom(_, _)
\* `${tag}[${index}]` of every node from below body down to the element;
\* index is the 0-based position among all children, -1 without a parent
PathFrom(d, c) ==
    IF c = 0 \/ c = body THEN << >>
    ELSE PathFrom(d, d[c].parent)
         \o << <<d[c].tag,
                 IF d[c].parent = 0 THEN -1
                 ELSE Cardinality({m \in ChildrenOf(d, d[c].parent) : m < c})>> >>
getElementPath(d, e) == PathFrom(d, e)
\* the hash of the sorted `name=value` list, kept as the list's content
hashAttributes(d, e) == {d[e].attrs[i] : i \in DOMAIN d[e].attrs}
\* `${path}_${attrHash}`
generateCacheKey(d, e) == <<getElementPath(d, e), hashAttributes(d, e)>>

\* a Map as the set of its entries [key, data, timestamp]
MapGet(cache, key) == {c \in cache : c.key = key}
MapSet(cache, key, data, ts) ==
    {c \in cache : c.key # key} \cup {[key |-> key, data |-> data, timestamp |-> ts]}
\* the comparison written <=: an entry whose age is the timeout still hits
CacheHit_inclusive(cache, key, now, timeout) ==
    \E c \in MapGet(cache, key) : now - c.timestamp <= timeout
\* cached && Date.now() - cached.timestamp < timeout
CacheHit(cache, key, now, timeout) ==
    \E c \in MapGet(cache, key) : now - c.timestamp < timeout
CacheData(cache, key) == (CHOOSE c \in MapGet(cache, key) : TRUE).data
\* deletes the entries with now - timestamp > timeout
cleanupCache(cache, now, timeout) == {c \in cache : ~(now - c.timestamp > timeout)}
clearCache(cache) == {}

\* ElementAnalyzer.analyze for a valid element: thrown when
\* performAnalysis throws, else the analysis and the analyzer's cache
analyze_miss(d, e, now, acache, key, analysis) ==
    IF StyleThrows(d, e)
    THEN [thrown |-> TRUE, analysis |-> analysis, acache |-> acache]
    ELSE [thrown |-> FALSE, analysis |-> analysis,
          acache |-> cleanupCache(MapSet(acache, key, analysis, now),
                                  now, analyzerCacheTimeout)]
analyze_keyed(d, e, now, acache, key) ==
    IF CacheHit(acache, key, now, analyzerCacheTimeout)
    THEN [thrown |-> FALSE, analysis |-> CacheData(acache, key), acache |-> acache]
    ELSE analyze_miss(d, e, now, acache, key, performAnalysis(d, e))
analyze(d, e, now, acache) == analyze_keyed(d, e, now, acache, generateCacheKey(d, e))

\* the element summary of a result: tagName, text, id (className left out)
ElementSummary(d, e) == [tagName |-> d[e].tag, text |-> getVisibleText(d, e), id |-> ElId(d, e)]
NoSummary == [tagName |-> "", text |-> "", id |-> ""]
ResultRec(success, error, primary, alternatives, element, now) ==
    [success |-> success, error |-> error, primary |-> primary,
     alternatives |-> alternatives, element |-> element, timestamp |-> now]
\* no record: the promise was rejected, or no call was made yet
NoResult == ResultRec(FALSE, "none", NoCandidate, << >>, NoSummary, 0)
\* the record of lines 21-28
InvalidResult(now) == ResultRec(FALSE, "invalid", NoCandidate, << >>, NoSummary, now)
\* the record of lines 118-130, built by the catch handler
ErrorResult(d, e, now) == ResultRec(FALSE, "error", NoCandidate, << >>, ElementSummary(d, e), now)
\* the record of lines 77-94
FallbackResult(d, e, now) ==
    ResultRec(TRUE, "",
              [strategy |-> "fallback", xpath |-> generateFallbackXPath(d, e),
               score |-> Pts(1), priority |-> 0],
              << >>, ElementSummary(d, e), now)
\* the record of lines 99-111: every strategy failed, and so did the fallback
ExhaustedResult(d, e, now) ==
    ResultRec(FALSE, "exhausted", NoCandidate, << >>, ElementSummary(d, e), now)
\* lines 74-111: `if (fallbackXPath)` takes a non-empty string only
Gen_fallback(d, e, now) ==
    IF generateFallbackXPath(d, e) # NoXPath
    THEN FallbackResult(d, e, now) ELSE ExhaustedResult(d, e, now)
\* the record of lines 50-60
EnhancedResult(d, e, result, now) ==
    ResultRec(TRUE, "", result.primary, result.alternatives, ElementSummary(d, e), now)
\* what a call leaves behind: settled is "returned" when the promise
\* resolves to result and "rejected" when it rejects; read, analyzed and
\* ran tell whether the result cache was read, the analyzer called and the
\* strategies run
CallRec(settled, result, cache, acache, read, analyzed, ran) ==
    [settled |-> settled, result |-> result, cache |-> cache, acache |-> acache,
     read |-> read, analyzed |-> analyzed, ran |-> ran]

\* the success returned without cache.set
Gen_package_noWrite(d, e, now, cache, acache, result) ==
    IF result.success
    THEN CallRec("returned", EnhancedResult(d, e, result, now), cache, acache, TRUE, TRUE, TRUE)
    ELSE CallRec("returned", Gen_fallback(d, e, now), cache, acache, TRUE, TRUE, TRUE)
\* cache.set for whatever is returned, the fallback record included
Gen_package_cacheAll(d, e, now, cache, acache, result) ==
    LET data == IF result.success THEN EnhancedResult(d, e, result, now)
                ELSE Gen_fallback(d, e, now)
    IN  CallRec("returned", data,
                cleanupCache(MapSet(cache, generateCacheKey(d, e), data, now),
                             now, cacheTimeout),
                acache, TRUE, TRUE, TRUE)
\* lines 48-95: the result of the manager packaged, cached when it is a
\* success of the strategies, the fallback record otherwise
Gen_package(d, e, now, cache, acache, result) ==
    IF result.success
    THEN CallRec("returned", EnhancedResult(d, e, result, now),
                 cleanupCache(MapSet(cache, generateCacheKey(d, e),
                                     EnhancedResult(d, e, result, now), now),
                              now, cacheTimeout),
                 acache, TRUE, TRUE, TRUE)
    ELSE CallRec("returned", Gen_fallback(d, e, now), cache, acache, TRUE, TRUE, TRUE)
\* the try block after the analysis a
Gen_analyzed(d, e, now, cache, a) ==
    IF a.thrown
    THEN \* catch handler: Utils.getVisibleText(element) throws again
         CallRec("rejected", NoResult, cache, a.acache, TRUE, TRUE, FALSE)
    ELSE IF SM_hasRandomClassesThrows(d, e)
         THEN CallRec("returned", ErrorResult(d, e, now), cache, a.acache, TRUE, TRUE, FALSE)
    ELSE IF StyleThrows(d, e)
         THEN \* the element summary throws, and so does the catch handler
              CallRec("rejected", NoResult, cache, a.acache, TRUE, TRUE, TRUE)
    ELSE Gen_package(d, e, now, cache, a.acache, SM_generateXPath(d, e, a.analysis))
\* the try block for a valid element that missed the cache
Gen_try(d, e, now, cache, acache) ==
    Gen_analyzed(d, e, now, cache, analyze(d, e, now, acache))

\* the guard written `!element`: a node without a tagName reaches
\* generateCacheKey, which throws outside the try block
generateXPath_noTagCheck(d, e, now, cache, acache) ==
    IF e = Null
    THEN CallRec("returned", InvalidResult(now), cache, acache, FALSE, FALSE, FALSE)
    ELSE IF e = NoTag
         THEN CallRec("rejected", NoResult, cache, acache, FALSE, FALSE, FALSE)
    ELSE IF CacheHit(cache, generateCacheKey(d, e), now, cacheTimeout)
         THEN CallRec("returned", CacheData(cache, generateCacheKey(d, e)),
                      cache, acache, TRUE, FALSE, FALSE)
    ELSE Gen_try(d, e, now, cache, acache)
\* XPathGenerator.generateXPath(element) at time now
generateXPath(d, e, now, cache, acache) ==
    IF IsInvalidElement(e)
    THEN CallRec("returned", InvalidResult(now), cache, acache, FALSE, FALSE, FALSE)
    ELSE IF CacheHit(cache, generateCacheKey(d, e), now, cacheTimeout)
         THEN CallRec("returned", CacheData(cache, generateCacheKey(d, e)),
                      cache, acache, TRUE, FALSE, FALSE)
    ELSE Gen_try(d, e, now, cache, acache)

(***************************************************************************)
(* The documents of the model.  A document is named by its parameters      *)
(* [kind, a, k, t, u]; DocOf builds the tree.                              *)
(***************************************************************************)
DocParam(kind, a, k, t, u) == [kind |-> kind, a |-> a, k |-> k, t |-> t, u |-> u]

\* <body><div id=a><t><t>...</t></t></div></body>: k nested t elements
\* without attributes or text below an ancestor whose id is a ("": no id)
ChainDoc(a, k, t) ==
    [i \in 1..(3 + k) |->
        IF i = 1 THEN HtmlEl
        ELSE IF i = 2 THEN BodyEl
        ELSE IF i = 3 THEN Node(body, "div", IdAttr(a), "")
        ELSE Node(i - 1, t, << >>, "")]
ChainParams ==
    {DocParam("chain", a, k, t, "") :
        a \in {"", "main", "it's", "a304c4ac"}, k \in 1..MaxDepth, t \in {"div", "span"}}

\* <body>[<p>Active users</p>]<div id=a><span>t</span> x k</div></body>:
\* k sibling spans with the same text t; with u = "p" a paragraph whose
\* text contains t comes first
SibsDoc(a, k, t, u) ==
    LET lead == IF u = "p" THEN <<Node(body, "p", << >>, "Active users")>> ELSE << >>
        box == 3 + Len(lead)
    IN <<HtmlEl, BodyEl>> \o lead \o <<Node(body, "div", IdAttr(a), "")>>
       \o [i \in 1..k |-> Node(box, "span", << >>, t)]
SibsParams ==
    {DocParam("sibs", a, k, t, u) :
        a \in {"", "box"}, k \in 1..MaxSibs, t \in {"Active", " Active "}, u \in {"", "p"}}

\* <body><div id=a><div data-v-1a2b3c4d class="css-1a2b3c"></div> x k</div></body>
NoiseAttrs == << <<"data-v-1a2b3c4d", "">>, <<"class", "css-1a2b3c">> >>
NoiseDoc(a, k) ==
    <<HtmlEl, BodyEl, Node(body, "div", IdAttr(a), "")>>
    \o [i \in 1..k |-> Node(3, "div", NoiseAttrs, "")]
NoiseParams == {DocParam("noise", a, k, "", "") : a \in {"", "main"}, k \in 1..MaxSibs}

\* the attributes of the <svg> of variant t
SvgAttrs(t) ==
    CASE t = "aria" -> << <<"aria-label", "Close">> >>
      [] t = "class" -> << <<"class", "btn card">> >>
      [] t = "viewBox" -> << <<"viewBox", "0 0 24 24">> >>
      [] t \in {"all", "full"} -> << <<"aria-label", "Close">>, <<"class", "btn card">>,
                         <<"viewBox", "0 0 24 24">> >>
      [] OTHER -> << >>
\* one <button a><svg t>[<title>Close</title>][<desc>..</desc>][<use>]<path/>[<foreignObject><span>..</span></foreignObject>]</svg></button>
\* whose button is node b
SvgBlock(b, a, t) ==
    <<Node(body, "button", IF a = "" THEN << >> ELSE << <<"aria-label", a>> >>, ""),
      SvgNode(b, "svg", SvgAttrs(t), "")>>
    \o (IF t \in {"title", "all", "full"} THEN <<SvgNode(b + 1, "title", << >>, "Close")>> ELSE << >>)
    \o (IF t \in {"desc", "full"} THEN <<SvgNode(b + 1, "desc", << >>, "Close icon")>> ELSE << >>)
    \o (IF t = "use" THEN <<SvgNode(b + 1, "use", << <<"href", "#close">> >>, "")>> ELSE << >>)
    \o <<SvgNode(b + 1, "path", << >>, "")>>
    \o (IF t = "full"
        THEN <<SvgNode(b + 1, "foreignObject", << >>, ""),
               Node(b + 5, "span", << >>, "Closes the dialog and discards changes")>>
        ELSE << >>)
\* k blocks of variant t one after the other; with u = "plain" a block
\* without any feature comes first
SvgDoc(a, k, t, u) ==
    LET lead == IF u = "plain" THEN SvgBlock(3, "", "plain") ELSE << >>
        one == SvgBlock(3 + Len(lead), a, t)
        more == Flatten([i \in 1..(k - 1) |-> SvgBlock(3 + Len(lead) + i * Len(one), a, t)])
    IN <<HtmlEl, BodyEl>> \o lead \o one \o more
SvgParams ==
    {DocParam("svg", a, k, t, u) :
        a \in {"", "Close dialog"}, k \in 1..MaxBlocks,
        t \in {"plain", "aria", "title", "desc", "class", "viewBox", "use", "all", "full"},
        u \in {"", "plain"}}

\* <body><div><t id=a [name=save] [class=css-1a2b3c]></t> x k</div></body>:
\* k = 2 repeats the id; u = "name" adds the name, u = "hash" the name, a
\* machine-generated class and the text Active
AttrExtra(u) ==
    (IF u \in {"name", "hash"} THEN << <<"name", "save">> >> ELSE << >>)
    \o (IF u = "hash" THEN << <<"class", "css-1a2b3c">> >> ELSE << >>)
AttrDoc(a, k, t, u) ==
    <<HtmlEl, BodyEl, Node(body, "div", << >>, "")>>
    \o [i \in 1..k |-> Node(3, t, IdAttr(a) \o AttrExtra(u),
                         IF u = "hash" THEN "Active" ELSE "")]
AttrParams ==
    {DocParam("attr", a, k, t, u) :
        a \in {"save", "it's", "app-root", "a304c4ac"}, k \in 1..MaxBlocks,
        t \in {"input", "div"}, u \in {"", "name", "hash"}}

\* <body><div id=main><div id=a><input id=a304c4ac name=save> x k</div></div></body>
NestedDoc(a, k) ==
    <<HtmlEl, BodyEl, Node(body, "div", IdAttr("main"), ""), Node(3, "div", IdAttr(a), "")>>
    \o [i \in 1..k |-> Node(4, "input", << <<"id", "a304c4ac">>, <<"name", "save">> >>, "")]
NestedParams == {DocParam("nested", a, k, "", "") : a \in {"", "box"}, k \in 1..MaxBlocks}

\* how an element is rendered: shown, or invisible by its computed display,
\* visibility or opacity, or by a bounding box of size zero
Renders == {"shown", "display-none", "visibility-hidden", "opacity-0", "zero-size"}
\* <body><div id=a><span>Hi</span><span [rendered as t]> Active </span></div></body>
RenderDoc(a, t) ==
    <<HtmlEl, BodyEl, Node(body, "div", IdAttr(a), ""), Node(3, "span", << >>, "Hi"),
      [Node(3, "span", << >>, " Active ") EXCEPT !.render = t]>>
RenderParams == {DocParam("render", a, 1, t, "") : a \in {"", "main"}, t \in Renders}

\* <body><div id=a>#shadow-root<span>Hi</span> x k</div></body>
ShadowDoc(a, k) ==
    <<HtmlEl, BodyEl, Node(body, "div", IdAttr(a), "")>>
    \o [i \in 1..k |-> ShadowNode(0, 3, "span", << >>, "Hi")]
ShadowParams == {DocParam("shadow", a, k, "", "") : a \in {"", "main"}, k \in 1..MaxBlocks}

\* <body><div id=a></div></body> whose div fails getComputedStyle
FaultyDoc(a) ==
    <<HtmlEl, BodyEl, [Node(body, "div", IdAttr(a), "") EXCEPT !.bad = TRUE]>>
FaultyParams == {DocParam("faulty", a, 1, "", "") : a \in {"", "main"}}

DocOf(dp) ==
    CASE dp.kind = "chain" -> ChainDoc(dp.a, dp.k, dp.t)
      [] dp.kind = "sibs" -> SibsDoc(dp.a, dp.k, dp.t, dp.u)
      [] dp.kind = "noise" -> NoiseDoc(dp.a, dp.k)
      [] dp.kind = "svg" -> SvgDoc(dp.a, dp.k, dp.t, dp.u)
      [] dp.kind = "attr" -> AttrDoc(dp.a, dp.k, dp.t, dp.u)
      [] dp.kind = "nested" -> NestedDoc(dp.a, dp.k)
      [] dp.kind = "render" -> RenderDoc(dp.a, dp.t)
      [] dp.kind = "shadow" -> ShadowDoc(dp.a, dp.k)
      [] dp.kind = "faulty" -> FaultyDoc(dp.a)
      [] OTHER -> <<HtmlEl, BodyEl>>
DocParams ==
    ChainParams \cup SibsParams \cup NoiseParams \cup SvgParams \cup AttrParams
    \cup NestedParams \cup RenderParams \cup ShadowParams \cup FaultyParams


(***************************************************************************)
(* The state.                                                              *)
(***************************************************************************)
VARIABLES
    dp,      \* the parameters of the live document, DocOf(dp)
    now,     \* Date.now()
    cache,   \* XPathGenerator.cache
    acache,  \* ElementAnalyzer.cache
    calls,   \* number of generateXPath calls made
    last,    \* the latest generateXPath call
    prev,    \* the call before it
    since,   \* what happened to the tree and the caches since the latest call
    call,    \* the latest direct call of a strategy or of the manager
    strategies,  \* StrategyManager.strategies
    extension,    \* the generateXPath messages the content script is handling, in start order
    notifications,  \* the NotificationSystem of the content script
    tab          \* the tab and the background script's click handler
vars == <<dp, now, cache, acache, calls, last, prev, since, call, strategies, extension, notifications, tab>>

doc == DocOf(dp)
\* the elements a caller can pass: the nodes of the document
Elements == DOMAIN doc
\* what is kept of a generateXPath call: its input, its time, the
\* document it ran on, what happened since the call before it, and how it
\* settled ("none": no call yet)
CallOf(e, out) ==
    [elem |-> e, time |-> now, dp |-> dp, mutated |-> since.mutated,
     flushed |-> since.flushed, settled |-> out.settled, result |-> out.result,
     read |-> out.read, analyzed |-> out.analyzed, ran |-> out.ran]
NoCallRec ==
    [elem |-> Null, time |-> 0, dp |-> dp, mutated |-> FALSE, flushed |-> FALSE,
     settled |-> "none", result |-> NoResult,
     read |-> FALSE, analyzed |-> FALSE, ran |-> FALSE]
Quiet == [mutated |-> FALSE, flushed |-> FALSE]
NoCall == [op |-> "none", elem |-> Null]

\* new NotificationSystem(): no notification, no timer, no pending removal
NewNotificationSystem ==
    [notifications |-> << >>, timers |-> {}, removals |-> << >>, attached |-> {}, shown |-> 0]
\* new XPathExtension(): nothing right-clicked, no message being handled
NewExtension == [lastClickedElement |-> Null, handling |-> << >>]
\* a tab with no click being handled
NewTab ==
    [restricted |-> FALSE, loaded |-> FALSE, utils |-> FALSE, pc |-> "idle",
     wasLoaded |-> FALSE, clicks |-> 0, sent |-> 0, injected |-> 0, alerts |-> 0]

\* the documents the generator is run on
GenParams ==
    {p \in DocParams :
        \/ p.kind = "chain" /\ p.t = "div" /\ p.a \in {"", "main"} /\ p.k \in {1, MaxDepth}
        \/ p.kind = "sibs" /\ p.u = "" /\ p.t = "Active" /\ p.k = MaxSibs
        \/ p.kind = "noise" /\ p.k = 1
        \/ p.kind = "svg" /\ p.t = "all" /\ p.u = "" /\ p.k = 1
        \/ p.kind = "attr" /\ p.t = "input" /\ p.u = "" /\ p.k = 1 /\ p.a \in {"save", "it's"}
        \/ p.kind = "shadow" /\ p.k = 1
        \/ p.kind = "faulty"}

Init ==
    /\ dp \in GenParams
    /\ now = 0
    /\ cache = {}
    /\ acache = {}
    /\ calls = 0
    /\ last = NoCallRec
    /\ prev = NoCallRec
    /\ since = Quiet
    /\ call = NoCall
    /\ extension = NewExtension
    /\ notifications = NewNotificationSystem
    /\ tab = NewTab
    /\ strategies = initializeStrategies

\* the call leaves its caches and its record behind
Settle(e, out) ==
    /\ cache' = out.cache
    /\ acache' = out.acache
    /\ last' = CallOf(e, out)
\* await generator.generateXPath(e)
GenerateXPath(e) ==
    /\ calls < MaxCalls
    /\ Settle(e, generateXPath(doc, e, now, cache, acache))
    /\ prev' = last
    /\ calls' = calls + 1
    /\ since' = Quiet
    /\ UNCHANGED <<dp, now, call, strategies, extension, notifications, tab>>

\* time passes
Tick ==
    /\ now < MaxTicks * TickMs
    /\ now' = now + TickMs
    /\ UNCHANGED <<dp, cache, acache, calls, last, prev, since, call, strategies, extension, notifications, tab>>

\* the page changes the id of the anchoring ancestor between two calls
Mutate ==
    /\ 0 < calls /\ calls < MaxCalls
    /\ ~since.mutated
    /\ \E p \in GenParams :
          /\ p # dp
          /\ p.kind = dp.kind /\ p.k = dp.k /\ p.t = dp.t /\ p.u = dp.u
          /\ dp' = p
    /\ since' = [since EXCEPT !.mutated = TRUE]
    /\ UNCHANGED <<now, cache, acache, calls, last, prev, call, strategies, extension, notifications, tab>>

\* generator.clearCache()
ClearCache ==
    /\ calls < MaxCalls
    /\ cache # {}
    /\ cache' = clearCache(cache)
    /\ since' = [since EXCEPT !.flushed = TRUE]
    /\ UNCHANGED <<dp, now, acache, calls, last, prev, call, strategies, extension, notifications, tab>>

Next ==
    \/ \E e \in Elements \cup {Null, NoTag} : GenerateXPath(e)
    \/ Tick
    \/ Mutate
    \/ ClearCache

Spec == Init /\ [][Next]_vars

(***************************************************************************)
(* Properties of generateXPath.                                            *)
(***************************************************************************)
\* the latest call returned a record (it did not reject)
Returned == calls > 0 /\ last.settled = "returned"
\* the document the latest call ran on
lastDoc == DocOf(last.dp)
\* evaluating x on the whole document yields exactly the node e
ResolvesTo(d, x, e) == ~Evaluate(d, x).err /\ Evaluate(d, x).nodes = {e}

\* C1 (as claimed): whenever generateXPath returns success=true, evaluating
\* primary.xpath against the whole document yields exactly one node, the
\* element that was passed in, whichever strategy supplied the primary.
C1_RoundTrip ==
    (Returned /\ last.result.success)
        => ResolvesTo(lastDoc, last.result.primary.xpath, last.elem)

\* C2 (as claimed): generateXPath never rejects: every call, whatever the
\* input and whichever tree capability fails, resolves to a record.
C2_NeverRejects == calls > 0 => last.settled = "returned"

\* two consecutive calls on the same element of the same tree, less than
\* the cache TTL apart, the first of which returned a record
SameElementWithinTTL ==
    /\ calls >= 2
    /\ prev.settled = "returned"
    /\ last.elem = prev.elem
    /\ last.time - prev.time < cacheTimeout
    /\ ~last.mutated
\* the second call returned the first call's value and did no work
SecondCallServed ==
    /\ last.settled = "returned"
    /\ last.result = prev.result
    /\ ~last.ran
    /\ ~last.analyzed

\* C3 (as claimed): two calls on the same element less than the TTL apart
\* with no tree mutation in between return the identical value and the
\* second runs no strategy and no analysis, whatever the first outcome was.
C3_IdempotentAlways == SameElementWithinTTL => SecondCallServed

\* the first of the two calls computed a success of a strategy (it was
\* not served from the cache, and its primary is not the fallback)
FirstComputedByStrategy ==
    /\ prev.ran
    /\ prev.result.success
    /\ prev.result.primary.strategy # "fallback"
\* C3 (amended): the second call is served from the cache when the first
\* call computed a success whose primary came from a strategy and
\* clearCache() was not called between the two calls.
C3_IdempotentWhenCached ==
    (SameElementWithinTTL /\ FirstComputedByStrategy /\ ~last.flushed)
        => SecondCallServed
\* C3 witness: such a second call, made after time has passed
C3_Witness ==
    /\ SameElementWithinTTL /\ FirstComputedByStrategy /\ ~last.flushed
    /\ last.time > prev.time
    /\ SecondCallServed

\* C4: for a null element or one without a tag name generateXPath returns
\* success=false, primary=null, alternatives=[] at once: no analysis, no
\* strategy, and neither cache is read or changed.
C4_InvalidElement ==
    [][\A e \in {Null, NoTag} :
          GenerateXPath(e) =>
              /\ last'.settled = "returned"
              /\ ~last'.result.success
              /\ last'.result.primary = NoCandidate
              /\ last'.result.alternatives = << >>
              /\ ~last'.read /\ ~last'.analyzed /\ ~last'.ran
              /\ cache' = cache /\ acache' = acache]_vars
\* C4 witness: an element without a tag name was passed while both caches
\* held an entry
C4_Witness ==
    /\ Returned /\ last.elem = NoTag
    /\ ~last.result.success /\ ~last.read
    /\ cache # {} /\ acache # {}

\* C6 (as claimed): for a node without id, stable attribute or text nested
\* 6 levels below an ancestor with a trustworthy id, generateXPath returns
\* success with the ancestor's id step followed by one tag[index] step per
\* level, a well-formed expression that resolves to the target.
C6_FallbackAnchored ==
    (/\ calls > 0
     /\ last.dp.kind = "chain" /\ last.dp.a = "main" /\ last.dp.k >= 6
     /\ last.elem = 3 + last.dp.k)
        => /\ Returned /\ last.result.success
           /\ WellFormed(last.result.primary.xpath)
           /\ Len(last.result.primary.xpath.steps) = last.dp.k + 1
           /\ ResolvesTo(lastDoc, last.result.primary.xpath, last.elem)

\* the entries of a cache stored under the key of e that are younger than
\* the timeout
FreshEntries(c, e, timeout) ==
    {x \in c : x.key = generateCacheKey(doc, e) /\ now - x.timestamp < timeout}
\* what a call on e must do with the two caches as they are
CachesHonoured(e) ==
    /\ FreshEntries(cache, e, cacheTimeout) # {} =>
          /\ last'.settled = "returned"
          /\ last'.result \in {x.data : x \in FreshEntries(cache, e, cacheTimeout)}
          /\ ~last'.analyzed /\ ~last'.ran
          /\ cache' = cache /\ acache' = acache
    /\ FreshEntries(cache, e, cacheTimeout) = {} =>
          /\ last'.analyzed
          /\ last'.result.success =>
                last'.result \notin {x.data : x \in cache}
          /\ FreshEntries(acache, e, analyzerCacheTimeout) # {} => acache' = acache
          /\ (FreshEntries(acache, e, analyzerCacheTimeout) = {} /\ ~StyleThrows(doc, e)) =>
                \E x \in acache' : x.key = generateCacheKey(doc, e) /\ x.timestamp = now
\* C11: in the result cache and in the analyzer's cache an entry is
\* returned only while now - timestamp is strictly below the timeout
\* (10000 ms, 5000 ms); an entry that has reached it is never returned, and
\* a hit returns the stored value unchanged.
C11_CacheTTL == [][\A e \in Elements : GenerateXPath(e) => CachesHonoured(e)]_vars
\* C11 witness: a second call exactly 10000 ms after the call that stored
\* the result, not served from the cache
C11_Witness ==
    /\ calls >= 2
    /\ prev.settled = "returned" /\ FirstComputedByStrategy
    /\ last.elem = prev.elem /\ ~last.mutated /\ ~last.flushed
    /\ last.time - prev.time = cacheTimeout
    /\ last.ran /\ last.result.timestamp = last.time


\* the values the id predicates of the steps of x compare with
IdAnchorsOf(x) ==
    UNION {{x.steps[i].preds[j].lit.val :
               j \in {k \in DOMAIN x.steps[i].preds :
                         /\ x.steps[i].preds[k].kind = "attrEq"
                         /\ x.steps[i].preds[k].name = "id"}} :
           i \in DOMAIN x.steps}
\* C18 (as claimed): a path that generateFallbackXPath supplies is anchored
\* only at an id that Utils.isValidId accepts; a node whose id is
\* machine-generated contributes a tag[index] segment instead.
C18_FallbackTrustedAnchor ==
    call.op = "fallback" => \A v \in IdAnchorsOf(call.xpath) : isValidId(v)


\* the strategies gave the latest call no candidate and nothing threw
FellBack ==
    /\ last.settled = "returned" /\ last.ran
    /\ last.result.error # "error"
    /\ ~SM_generateXPath(DocOf(last.dp), last.elem,
                         analyze(DocOf(last.dp), last.elem, last.time, {}).analysis).success
\* C24: when no strategy yields a candidate and nothing throws, generateXPath
\* returns success with the primary of strategy "fallback", score 1,
\* priority 0, a non-empty expression and no alternatives; it never takes
\* the failure exit that follows the fallback.
C24_FallbackSucceeds ==
    /\ last.result.error # "exhausted"
    /\ FellBack =>
        /\ last.result.success
        /\ last.result.primary.strategy = "fallback"
        /\ last.result.primary.score = Pts(1)
        /\ last.result.primary.priority = 0
        /\ last.result.primary.xpath # NoXPath
        /\ last.result.alternatives = << >>
\* the fallback served body, the node its walk collects no segment for,
\* and a node below it
C24_Witness == FellBack /\ last.elem = body
C24_WitnessBelow == FellBack /\ last.elem # body /\ last.result.primary.strategy = "fallback"


\* C25: every entry of the result cache holds a success whose primary comes
\* from a registered strategy, never the fallback, with at most two
\* alternatives; failures and fallback results are not cached.
C25_CachedAreStrategySuccesses ==
    \A c \in cache :
        /\ c.data.success
        /\ c.data.primary # NoCandidate
        /\ \E i \in DOMAIN Registered : Registered[i].name = c.data.primary.strategy
        /\ c.data.primary.strategy # "fallback"
        /\ Len(c.data.alternatives) <= 2
\* the latest call returned the fallback record and left no entry for its
\* element in a cache that holds a result of an earlier call
C25_Witness ==
    /\ FellBack /\ last.result.success
    /\ cache # {}
    /\ MapGet(cache, generateCacheKey(DocOf(last.dp), last.elem)) = {}

(***************************************************************************)
(* The strategies and the manager called directly, on every document of    *)
(* the catalogue.  `call` keeps the call and what it returned; the          *)
(* operations read the document only, so a behaviour makes one call.       *)
(***************************************************************************)
InitDirect ==
    /\ dp \in DocParams
    /\ now = 0
    /\ cache = {}
    /\ acache = {}
    /\ calls = 0
    /\ last = NoCallRec
    /\ prev = NoCallRec
    /\ since = Quiet
    /\ call = NoCall
    /\ extension = NewExtension
    /\ notifications = NewNotificationSystem
    /\ tab = NewTab
    /\ strategies = initializeStrategies

\* strategy.isApplicable(e) and strategy.generate(e) of AttributeStrategy
CallAttribute(e) ==
    /\ call = NoCall
    /\ call' = [op |-> "attribute", elem |-> e,
                applicable |-> Attribute_isApplicable(doc, e),
                thrown |-> Attribute_generateThrows(doc, e),
                xpath |-> IF Attribute_generateThrows(doc, e) THEN NoXPath
                          ELSE Attribute_generate(doc, e)]
    /\ UNCHANGED <<dp, now, cache, acache, calls, last, prev, since, strategies, extension, notifications, tab>>

\* detectDuplicateText(text, e) and generate(e) of TextStrategy
CallText(e) ==
    /\ call = NoCall
    /\ ~StyleThrows(doc, e)
    /\ call' = [op |-> "text", elem |-> e,
                info |-> Text_detectDuplicateText(doc, getVisibleText(doc, e), e),
                xpath |-> Text_generate(doc, e)]
    /\ UNCHANGED <<dp, now, cache, acache, calls, last, prev, since, strategies, extension, notifications, tab>>

\* generate(e, {analysis}) of SVGStrategy on the analysis of e
CallSVG(e) ==
    /\ call = NoCall
    /\ ~StyleThrows(doc, e)
    /\ call' = [op |-> "svg", elem |-> e,
                xpath |-> SVG_generate(doc, performAnalysis(doc, e))]
    /\ UNCHANGED <<dp, now, cache, acache, calls, last, prev, since, strategies, extension, notifications, tab>>

\* what one run of the manager pushed and what it returned
ManagerRun(results) == [produced |-> results, result |-> SM_pack(SM_sort(results))]
\* StrategyManager.generateXPath(e, {analysis})
CallManager(e) ==
    /\ call = NoCall
    /\ call' = [op |-> "manager", elem |-> e,
                thrown |-> SM_hasRandomClassesThrows(doc, e),
                run |-> ManagerRun(IF SM_hasRandomClassesThrows(doc, e) THEN << >>
                                   ELSE SM_results(doc, e, performAnalysis(doc, e)))]
    /\ UNCHANGED <<dp, now, cache, acache, calls, last, prev, since, strategies, extension, notifications, tab>>

\* Utils.getVisibleText(e)
CallVisibleText(e) ==
    /\ call = NoCall
    /\ ~StyleThrows(doc, e)
    /\ call' = [op |-> "getVisibleText", elem |-> e, text |-> getVisibleText(doc, e)]
    /\ UNCHANGED <<dp, now, cache, acache, calls, last, prev, since, strategies, extension, notifications, tab>>

\* XPathGenerator.generateFallbackXPath(e)
CallFallback(e) ==
    /\ call = NoCall
    /\ call' = [op |-> "fallback", elem |-> e, xpath |-> generateFallbackXPath(doc, e)]
    /\ UNCHANGED <<dp, now, cache, acache, calls, last, prev, since, strategies, extension, notifications, tab>>

\* ElementAnalyzer.analyzeAttributes(e)
CallAnalyzeAttributes(e) ==
    /\ call = NoCall
    /\ call' = [op |-> "analyzeAttributes", elem |-> e,
                attributes |-> analyzeAttributes(doc, e)]
    /\ UNCHANGED <<dp, now, cache, acache, calls, last, prev, since, strategies, extension, notifications, tab>>

NextDirect ==
    \/ \E e \in Elements : CallAttribute(e)
    \/ \E e \in Elements : CallText(e)
    \/ \E e \in Elements : CallSVG(e)
    \/ \E e \in Elements : CallManager(e)
    \/ \E e \in Elements : CallAnalyzeAttributes(e)
    \/ \E e \in Elements : CallFallback(e)
    \/ \E e \in Elements : CallVisibleText(e)

SpecDirect == InitDirect /\ [][NextDirect]_vars

(***************************************************************************)
(* Properties of the strategies and of the manager.                        *)
(***************************************************************************)
\* the candidates a run returned, best first
Ranked(r) == IF r.primary = NoCandidate THEN << >> ELSE <<r.primary>> \o r.alternatives
\* min(2, n - 1), and 0 when there is no candidate
AlternativesOf(n) == IF n >= 3 THEN 2 ELSE IF n = 2 THEN 1 ELSE 0
\* the ranking the claim describes, of the candidates c and the record r
RankedByScore(c, r) ==
    /\ r.success <=> (r.primary # NoCandidate)
    /\ (c = << >>) <=> (r.primary = NoCandidate)
    /\ Len(r.alternatives) = AlternativesOf(Len(c))
    /\ \A i \in DOMAIN Ranked(r) : Ranked(r)[i] \in SeqToSet(c)
    /\ \A i, j \in DOMAIN Ranked(r) :
          /\ (i # j) => (Ranked(r)[i] # Ranked(r)[j])
          /\ (i < j) => (Ranked(r)[i].score >= Ranked(r)[j].score)
    /\ \A x \in SeqToSet(c) \ SeqToSet(Ranked(r)) :
          \A i \in DOMAIN Ranked(r) : Ranked(r)[i].score >= x.score

\* C5: StrategyManager.generateXPath returns as primary a candidate whose
\* score is at least that of every candidate of the run (null when there
\* is none), as alternatives the candidates ranked second and third (never
\* the primary), and success exactly when primary is non-null.
C5_PrimaryIsBest ==
    call.op = "manager" => RankedByScore(call.run.produced, call.run.result)
\* C5 witness: a run of three candidates that were not pushed in the
\* order of their scores
C5_Witness ==
    /\ call.op = "manager"
    /\ Len(call.run.produced) >= 3
    /\ \E i, j \in DOMAIN call.run.produced :
          i < j /\ call.run.produced[i].score < call.run.produced[j].score
    /\ Len(call.run.result.alternatives) = 2

\* the id of e is non-empty, passes Utils.isValidId and no other node has it
HasUniqueValidId(d, e) ==
    /\ ElId(d, e) # ""
    /\ isValidId(ElId(d, e))
    /\ \A n \in DOMAIN d \ {e} : ElId(d, n) # ElId(d, e)
\* C7 (as claimed): for every element with a non-empty, valid, tree-unique
\* id AttributeStrategy is applicable and generate returns an expression
\* that resolves to exactly that element, quotes in the id included.
C7_UniqueIdResolves ==
    (call.op = "attribute" /\ HasUniqueValidId(doc, call.elem))
        => /\ call.applicable
           /\ ~call.thrown
           /\ call.xpath # NoXPath
           /\ ResolvesTo(doc, call.xpath, call.elem)

\* the nodes whose visible text is the visible text of e
SameVisibleText(d, e) ==
    {n \in DOMAIN d : ~StyleThrows(d, n) /\ getVisibleText(d, n) = getVisibleText(d, e)}
\* C8 (as claimed): when the target's visible text occurs in k >= 2 nodes,
\* detectDuplicateText returns hasDuplicates=true and count=k, and generate
\* returns an expression that resolves uniquely to the target.
C8_DuplicateText ==
    (/\ call.op = "text"
     /\ getVisibleText(doc, call.elem) # ""
     /\ Cardinality(SameVisibleText(doc, call.elem)) >= 2)
        => /\ call.info.hasDuplicates
           /\ call.info.count = Cardinality(SameVisibleText(doc, call.elem))
           /\ call.xpath # NoXPath
           /\ ResolvesTo(doc, call.xpath, call.elem)

\* the node's only attributes are the scoped-style marker and the class
\* attribute with a hash-shaped token
IsNoiseNode(d, e) == d[e].attrs = NoiseAttrs
\* C9 (as claimed): for such a node neither attribute appears in any stable
\* classification, AttributeStrategy is not applicable, and the primary
\* comes from 'relative' (or, the manager having none, from 'fallback').
C9_NoiseExcluded ==
    (call.op # "none" /\ IsNoiseNode(doc, call.elem)) =>
        /\ call.op = "analyzeAttributes" =>
              (call.attributes.stable \cup call.attributes.priority
               \cup call.attributes.data \cup call.attributes.aria) = {}
        /\ call.op = "attribute" => ~call.applicable
        /\ call.op = "manager" => call.run.result.primary.strategy \in {"relative", ""}

\* the formulation kinds in the documented order: 1 aria-label, 2 title
\* text, 3 desc text, 4 labelled-ancestor scope, 5 filtered class,
\* 6 viewBox, 7 path count, 8 use href
ValidKinds(d, info) ==
    {k \in 1..8 : \E i \in DOMAIN SVG_kind(d, info, k) :
                     validateXPath(d, SVG_kind(d, info, k)[i], info.svgElement)}
\* x is the first formulation of kind k that validates
FirstValidOfKind(d, info, k, x) ==
    \E i \in DOMAIN SVG_kind(d, info, k) :
        /\ x = SVG_kind(d, info, k)[i]
        /\ validateXPath(d, x, info.svgElement)
        /\ \A j \in 1..(i - 1) : ~validateXPath(d, SVG_kind(d, info, k)[j], info.svgElement)
\* what the claim says generate returns for the SVG information `info`
SvgChoice(d, info, x) ==
    IF ValidKinds(d, info) = {}
    THEN x = SVG_generatePositionalXPath(d, info.svgElement)
    ELSE FirstValidOfKind(d, info, Min(ValidKinds(d, info)), x)
\* C10: SVGStrategy.generate returns the first formulation that validates
\* in the order aria-label, title, desc, labelled ancestor, class, viewBox,
\* path count, use href, and the positional '//svg[k]' only when none does.
C10_SvgOrder ==
    (call.op = "svg" /\ performAnalysis(doc, call.elem).svgInfo # NoSvg)
        => SvgChoice(doc, performAnalysis(doc, call.elem).svgInfo, call.xpath)
\* C10 witness: the labelled-ancestor formulation was returned although a
\* later kind validates as well
C10_Witness ==
    /\ call.op = "svg"
    /\ performAnalysis(doc, call.elem).svgInfo # NoSvg
    /\ 4 \in ValidKinds(doc, performAnalysis(doc, call.elem).svgInfo)
    /\ Min(ValidKinds(doc, performAnalysis(doc, call.elem).svgInfo)) = 4
    /\ ValidKinds(doc, performAnalysis(doc, call.elem).svgInfo) \ {4} # {}
    /\ FirstValidOfKind(doc, performAnalysis(doc, call.elem).svgInfo, 4, call.xpath)


\* C12 (as claimed): every expression a strategy returns from generate, and
\* so every candidate the manager pushes, has been accepted by the
\* strategy's validation against the target element itself.
C12_ReturnedIsValidated ==
    /\ (call.op \in {"attribute", "text", "svg"} /\ call.xpath # NoXPath)
          => validateXPath(doc, call.xpath, call.elem)
    /\ call.op = "manager" =>
          \A i \in DOMAIN call.run.produced :
              validateXPath(doc, call.run.produced[i].xpath, call.elem)


\* C13 (as claimed): an expression that AttributeStrategy returns was
\* accepted by validateXPath, and validateXPath accepts only an expression
\* that resolves to exactly one node, the target; an expression matching two
\* or more nodes is rejected even when the target is the first of them.
C13_AcceptsOnlySingle ==
    (call.op = "attribute" /\ call.xpath # NoXPath)
        => ResolvesTo(doc, call.xpath, call.elem)


\* position of the strategy called name in this.strategies
RegistryIndex(name) == CHOOSE i \in DOMAIN Strategies : Strategies[i].name = name
\* C14: the ranked candidates are in descending order of score, and two
\* candidates of equal score are in the order of their strategies in the
\* registry.
C14_RankedOrder ==
    call.op = "manager" =>
        \A i, j \in DOMAIN Ranked(call.run.result) :
            i < j =>
                LET a == Ranked(call.run.result)[i]
                    b == Ranked(call.run.result)[j]
                IN /\ a.score >= b.score
                   /\ a.score = b.score
                         => RegistryIndex(a.strategy) < RegistryIndex(b.strategy)
\* C14 witness: a run whose two best candidates have the same score
C14_Witness ==
    /\ call.op = "manager"
    /\ Len(Ranked(call.run.result)) >= 2
    /\ Ranked(call.run.result)[1].score = Ranked(call.run.result)[2].score


(***************************************************************************)
(* The strategy registry: registerStrategy and unregisterStrategy called   *)
(* on a constructed StrategyManager.  call keeps the latest of these       *)
(* calls and whether it threw.                                             *)
(***************************************************************************)
\* the rank the next registration gets
NextNth ==
    LET used == {0} \cup {strategies[i].nth : i \in DOMAIN strategies}
    IN 1 + CHOOSE m \in used : \A n \in used : n <= m
\* what a caller hands to registerStrategy: BaseStrategy instances and
\* other objects with a name and a priority
Offered ==
    {StrategyObj(n, p, b, NextNth) :
        n \in {"custom", "text"}, p \in {60, 90, 120}, b \in BOOLEAN}
InitRegistry ==
    /\ dp = DocParam("chain", "", 1, "div", "")
    /\ now = 0
    /\ cache = {}
    /\ acache = {}
    /\ calls = 0
    /\ last = NoCallRec
    /\ prev = NoCallRec
    /\ since = Quiet
    /\ call = NoCall
    /\ extension = NewExtension
    /\ notifications = NewNotificationSystem
    /\ tab = NewTab
    /\ strategies = initializeStrategies
\* manager.registerStrategy(s): throws unless s is a BaseStrategy instance
RegisterStrategy(s) ==
    /\ NextNth <= Len(Registered) + MaxRegistrations
    /\ call' = [op |-> "register", elem |-> Null, thrown |-> ~s.base]
    /\ strategies' = IF s.base THEN registerStrategy(strategies, s) ELSE strategies
    /\ UNCHANGED <<dp, now, cache, acache, calls, last, prev, since, extension, notifications, tab>>
\* manager.unregisterStrategy(name)
UnregisterStrategy(name) ==
    /\ call' = [op |-> "unregister", elem |-> Null, thrown |-> FALSE]
    /\ strategies' = unregisterStrategy(strategies, name)
    /\ UNCHANGED <<dp, now, cache, acache, calls, last, prev, since, extension, notifications, tab>>
NextRegistry ==
    \/ \E s \in Offered : RegisterStrategy(s)
    \/ \E name \in {"custom", "text", "shadow-dom", "absent"} : UnregisterStrategy(name)
SpecRegistry == InitRegistry /\ [][NextRegistry]_vars

\* the registry is in descending priority, equal priorities in the order of
\* registration, and holds BaseStrategy instances only
RegistryOrdered ==
    /\ \A i \in DOMAIN strategies : strategies[i].base
    /\ \A i, j \in DOMAIN strategies :
          i < j => /\ strategies[i].score >= strategies[j].score
                   /\ strategies[i].score = strategies[j].score
                         => strategies[i].nth < strategies[j].nth
\* registering something that is not a BaseStrategy throws and leaves the
\* registry as it was
RejectsOthers ==
    \A s \in Offered :
        (RegisterStrategy(s) /\ ~s.base) => (call'.thrown /\ strategies' = strategies)
\* C15: after any sequence of registerStrategy and unregisterStrategy calls
\* the registry is sorted by descending priority, strategies of equal
\* priority are in the order they were registered, and every member is a
\* BaseStrategy instance; registering anything else fails and changes nothing.
C15_Registry == []RegistryOrdered /\ [][RejectsOthers]_vars
\* C15 witness: a strategy of priority 90 registered after construction
\* stands behind an older strategy of priority 90, shadow-dom has been
\* unregistered, and the latest registration was rejected
C15_Witness ==
    /\ call.op = "register" /\ call.thrown
    /\ \A i \in DOMAIN strategies : strategies[i].name # "shadow-dom"
    /\ \E i \in DOMAIN strategies :
          /\ i > 1
          /\ strategies[i].nth > Len(Registered)
          /\ strategies[i - 1].score = strategies[i].score
          /\ strategies[i - 1].nth <= Len(Registered)


\* the registered strategies that throw when the manager calls them on e
Failing(d, e) ==
    {Strategies[i].name : i \in {j \in DOMAIN Strategies : Strategy_throws(Strategies[j].name, d, e)}}
\* the registry once every failing strategy has been unregistered
WithoutFailing(d, e) ==
    LET Keep(st) == st.name \notin Failing(d, e) IN SelectSeq(Strategies, Keep)
\* C16: when strategies throw inside the manager's loop the manager still
\* returns, the candidates it collected are exactly those of a run in which
\* the failing strategies are not registered, and no candidate comes from a
\* failing strategy.
C16_Isolation ==
    (/\ call.op = "manager"
     /\ ~SM_hasRandomClassesThrows(doc, call.elem)
     /\ Failing(doc, call.elem) # {})
        => /\ ~call.thrown
           /\ call.run.produced
                 = SM_resultsOf(WithoutFailing(doc, call.elem), doc, call.elem,
                                performAnalysis(doc, call.elem))
           /\ \A i \in DOMAIN call.run.produced :
                 call.run.produced[i].strategy \notin Failing(doc, call.elem)
\* C16 witness: the strategy registered first throws and a strategy
\* registered after it supplies the primary
C16_Witness ==
    /\ call.op = "manager"
    /\ ~call.thrown
    /\ Strategies[1].name \in Failing(doc, call.elem)
    /\ call.run.result.success
    /\ RegistryIndex(call.run.result.primary.strategy) > 1


\* a token of the class list of e matches one of the randomPatterns of
\* hasRandomClasses
HasGeneratedClassToken(d, e) ==
    \E i \in DOMAIN SplitWs(ClassName(d, e)) : IsRandomClass(SplitWs(ClassName(d, e))[i])
\* C17: the score of the attribute candidate is AttributeStrategy.getScore
\* minus 50 exactly when the class list of the element holds a
\* machine-generated-looking token and getScore otherwise; the score of
\* every other candidate is its strategy's getScore.
C17_Penalty ==
    (call.op = "manager" /\ ~call.thrown) =>
        \A i \in DOMAIN call.run.produced :
            LET c == call.run.produced[i]
                own == Strategy_getScore(c.strategy, doc, call.elem,
                                         performAnalysis(doc, call.elem))
            IN IF c.strategy = "attribute" /\ HasGeneratedClassToken(doc, call.elem)
               THEN c.score = own - Pts(50)
               ELSE c.score = own
\* C17 witness: a run on an element with a machine-generated class in which
\* the attribute candidate carries the reduced score and another strategy
\* has a candidate too
C17_Witness ==
    /\ call.op = "manager"
    /\ ~call.thrown
    /\ HasGeneratedClassToken(doc, call.elem)
    /\ \E i, j \in DOMAIN call.run.produced :
          /\ call.run.produced[i].strategy = "attribute"
          /\ call.run.produced[i].score = Attribute_getScore(doc, call.elem) - Pts(50)
          /\ call.run.produced[j].strategy # "attribute"


\* the tiers of a classification in which the attribute called name is filed
TiersOf(attributes, name) ==
    {t \in {"priority", "data", "aria", "framework"} :
        name \in (CASE t = "priority" -> attributes.priority
                    [] t = "data" -> attributes.data
                    [] t = "aria" -> attributes.aria
                    [] OTHER -> attributes.framework)}
\* C19 (as claimed): analyzeAttributes files every attribute of the element
\* in exactly one of the tiers priority, data, aria and framework.
C19_ExactlyOneTier ==
    call.op = "analyzeAttributes" =>
        \A i \in DOMAIN doc[call.elem].attrs :
            Cardinality(TiersOf(call.attributes, doc[call.elem].attrs[i][1])) = 1

\* C20 (as claimed): an attribute whose name matches a framework pattern or
\* whose value has the shape of a random token is in no tier but framework
\* and is not in the stable set of getStableAttributes, whatever its name.
C20_RandomOnlyFramework ==
    call.op = "analyzeAttributes" =>
        \A i \in DOMAIN doc[call.elem].attrs :
            LET name == doc[call.elem].attrs[i][1]
                value == doc[call.elem].attrs[i][2]
            IN (isFrameworkAttribute(name, value) \/ isRandomGeneratedValue(value))
                  => /\ TiersOf(call.attributes, name) \subseteq {"framework"}
                     /\ name \notin call.attributes.stable


\* the element is computed-invisible by one of the four conditions
IsInvisible(d, e) == d[e].render # "shown"
\* C21 (as claimed): getVisibleText returns the empty string for an element
\* that is invisible by display none, visibility hidden, zero opacity or a
\* zero-size bounding box, and the trimmed direct text of a visible element.
C21_VisibleText ==
    call.op = "getVisibleText" =>
        call.text = (IF IsInvisible(doc, call.elem) THEN "" ELSE Trim(doc[call.elem].text))


(***************************************************************************)
(* The extractor cache: ElementAnalyzer.analyze called directly while the  *)
(* clock advances in steps of half the analyzer's timeout.  call keeps the *)
(* latest call, whether it threw and whether the cache served it.          *)
(***************************************************************************)
\* the step of the clock of this specification
AnalyzerTickMs == analyzerCacheTimeout \div 2
InitAnalyzer ==
    /\ dp \in {DocParam("chain", "main", 1, "div", ""), DocParam("faulty", "main", 1, "", "")}
    /\ now = 0
    /\ cache = {}
    /\ acache = {}
    /\ calls = 0
    /\ last = NoCallRec
    /\ prev = NoCallRec
    /\ since = Quiet
    /\ call = NoCall
    /\ extension = NewExtension
    /\ notifications = NewNotificationSystem
    /\ tab = NewTab
    /\ strategies = initializeStrategies
\* analyzer.analyze(e) for an element with a tag name
Analyze(e) ==
    /\ call' = [op |-> "analyze", elem |-> e,
                thrown |-> analyze(doc, e, now, acache).thrown,
                hit |-> CacheHit(acache, generateCacheKey(doc, e), now, analyzerCacheTimeout)]
    /\ acache' = analyze(doc, e, now, acache).acache
    /\ UNCHANGED <<dp, now, cache, calls, last, prev, since, strategies, extension, notifications, tab>>
\* Date.now() advances
AnalyzerTick ==
    /\ now < MaxAnalyzerTicks * AnalyzerTickMs
    /\ now' = now + AnalyzerTickMs
    /\ UNCHANGED <<dp, cache, acache, calls, last, prev, since, call, strategies, extension, notifications, tab>>
NextAnalyzer ==
    \/ \E e \in Elements : Analyze(e)
    \/ AnalyzerTick
SpecAnalyzer == InitAnalyzer /\ [][NextAnalyzer]_vars

\* C22 (as claimed): when an analyze call returns, hit or miss, the
\* extractor cache holds no entry older than the timeout of 5000 ms.
C22_EvictedOnAccess ==
    [][\A e \in Elements :
          (Analyze(e) /\ ~call'.thrown)
              => \A x \in acache' : now - x.timestamp <= analyzerCacheTimeout]_vars


(***************************************************************************)
(* The notification system of the content script.  A notification is its   *)
(* id; ids are Date.now() + Math.random() and never repeat.  The list is   *)
(* indexed from 1 here and from 0 in the code.                              *)
(***************************************************************************)
maxNotifications == 5
defaultDuration == 3000
\* the durations a caller passes: none (the default) or 0, a notification
\* that stays until it is clicked
Durations == {0, defaultDuration}

IndexOfId(list, id) ==
    IF \E i \in 1..Len(list) : list[i] = id
    THEN CHOOSE i \in 1..Len(list) : list[i] = id /\ \A j \in 1..(i - 1) : list[j] # id
    ELSE 0
\* list.splice(index, 1): nothing is removed past the end of the list
Splice(list, index) ==
    IF index \in 1..Len(list)
    THEN [i \in 1..(Len(list) - 1) |-> IF i < index THEN list[i] ELSE list[i + 1]]
    ELSE list
\* the callback hide(id) leaves behind removes whatever holds the id now
Removal_byId(list, r) == Splice(list, IndexOfId(list, r.id))
\* the callback hide(id) leaves behind: splice at the index found by hide
Removal(list, r) == Splice(list, r.index)

\* hide(id): clears the timer and schedules the removal 300 ms later
hide(ns, id) ==
    IF IndexOfId(ns.notifications, id) = 0 THEN ns
    ELSE [ns EXCEPT !.timers = @ \ {id},
                    !.removals = Append(@, [index |-> IndexOfId(ns.notifications, id),
                                            id |-> id])]
removeOldest(ns) ==
    IF Len(ns.notifications) > 0 THEN hide(ns, ns.notifications[1]) ELSE ns
\* show(...) pushing at once, with no removal of the oldest
show_unlimited(ns, duration) ==
    [ns EXCEPT !.notifications = Append(@, ns.shown + 1),
               !.attached = @ \cup {ns.shown + 1},
               !.timers = IF duration > 0 THEN @ \cup {ns.shown + 1} ELSE @,
               !.shown = @ + 1]
\* show(message, type, options)
show(ns, duration) ==
    show_unlimited(IF Len(ns.notifications) >= maxNotifications
                   THEN removeOldest(ns) ELSE ns, duration)
RECURSIVE HideAll(_, _)
HideAll(ns, ids) ==
    IF ids = << >> THEN ns ELSE HideAll(hide(ns, Head(ids)), Tail(ids))
\* clear(): hide every notification of the list
clear(ns) == HideAll(ns, ns.notifications)
\* the callback of the setTimeout(…, 300) of hide; equal delays fire in
\* the order they were set
removalCallback(ns) ==
    [ns EXCEPT !.notifications = Removal(@, Head(ns.removals)),
               !.attached = @ \ {Head(ns.removals).id},
               !.removals = Tail(@)]

InitNotifications ==
    /\ dp = DocParam("chain", "", 1, "div", "")
    /\ now = 0
    /\ cache = {}
    /\ acache = {}
    /\ calls = 0
    /\ last = NoCallRec
    /\ prev = NoCallRec
    /\ since = Quiet
    /\ call = NoCall
    /\ strategies = initializeStrategies
    /\ extension = NewExtension
    /\ notifications = NewNotificationSystem
    /\ tab = NewTab

Others == <<dp, now, cache, acache, calls, last, prev, since, call, strategies, extension, tab>>
\* notificationSystem.show(message, type, {duration})
Show(duration) ==
    /\ notifications.shown < MaxShows
    /\ notifications' = show(notifications, duration)
    /\ UNCHANGED Others
\* the auto-hide timer of a notification fires
TimerFires(id) ==
    /\ id \in notifications.timers
    /\ Len(notifications.removals) < MaxPending
    /\ notifications' = hide(notifications, id)
    /\ UNCHANGED Others
\* a click on a notification still in the container
Click(id) ==
    /\ id \in notifications.attached
    /\ Len(notifications.removals) < MaxPending
    /\ notifications' = hide(notifications, id)
    /\ UNCHANGED Others
\* notificationSystem.clear()
Clear ==
    /\ notifications.notifications # << >>
    /\ Len(notifications.removals) + Len(notifications.notifications) <= MaxPending
    /\ notifications' = clear(notifications)
    /\ UNCHANGED Others
\* 300 ms after a hide, its callback runs
RemovalFires ==
    /\ notifications.removals # << >>
    /\ notifications' = removalCallback(notifications)
    /\ UNCHANGED Others
NextNotifications ==
    \/ \E d \in Durations : Show(d)
    \/ \E id \in 1..MaxShows : TimerFires(id)
    \/ \E id \in 1..MaxShows : Click(id)
    \/ Clear
    \/ RemovalFires
SpecNotifications == InitNotifications /\ [][NextNotifications]_vars

\* C28: after any sequence of show, hide, click and timer events the
\* notification list holds at most maxNotifications entries
C28_AtMostMax == Len(notifications.notifications) <= maxNotifications

\* C29: the callback of a hide(id) removes the notification with that id, if
\* the list still holds it, and no other notification
C29_RemovesExactlyThatId ==
    [][RemovalFires
         => notifications'.notifications
              = Removal_byId(notifications.notifications, Head(notifications.removals))]_vars


(***************************************************************************)
(* The content script handling generateXPath messages.  A message being    *)
(* handled is at one of four program points: the cache lookup and the       *)
(* computation inside generator.generateXPath, the report after             *)
(* `await generator.generateXPath(...)`, and the notification after         *)
(* `await Utils.copyToClipboard(...)`.  Handlers resume in any order, which *)
(* is more than the event loop allows.                                      *)
(***************************************************************************)
copiedDuration == 4000
errorDuration == 5000
\* the points before which the code can yield with an await placed inside
\* generateXPath, between the lookup and the computation
Suspends_inGenerate(point) == point \in {"compute", "report", "notify"}
\* the points before which the handler yields: generateXPath has no await
\* in its body, generateAndCopyXPath awaits it and then the clipboard
Suspends(point) == point \in {"report", "notify"}

Request(e, at) == [elem |-> e, at |-> at, pc |-> "lookup", hit |-> FALSE, result |-> NoResult]
\* lines 31-40: the lookup, which keeps cached.data on a hit
Looked(S, hit, key) ==
    [S EXCEPT !.req.pc = "compute", !.req.hit = hit,
              !.req.result = IF hit THEN CacheData(S.cache, key) ELSE NoResult]
\* lines 42-131: the try block, whose outcome is out
Computed(S, out) ==
    [S EXCEPT !.req.pc = "report", !.req.result = out.result,
              !.cache = out.cache, !.acache = out.acache]
\* one program point of the handler, run at time t on the caches and the
\* notification system of S
Exec(S, t) ==
    IF S.req.pc = "lookup"
    THEN Looked(S, CacheHit(S.cache, generateCacheKey(doc, S.req.elem), t, cacheTimeout),
                generateCacheKey(doc, S.req.elem))
    ELSE IF S.req.pc = "compute"
    THEN IF S.req.hit THEN [S EXCEPT !.req.pc = "report"]
         ELSE Computed(S, Gen_try(doc, S.req.elem, t, S.cache, S.acache))
    ELSE IF S.req.pc = "report"
    THEN IF S.req.result.success
         THEN [S EXCEPT !.req.pc = "notify"]
         ELSE [S EXCEPT !.req.pc = "done", !.ns = show(S.ns, errorDuration)]
    ELSE [S EXCEPT !.req.pc = "done", !.ns = show(S.ns, copiedDuration)]
\* the handler runs from its program point to its next await
RECURSIVE RunOn(_, _)
Continue(S, t) ==
    IF S.req.pc = "done" \/ Suspends(S.req.pc) THEN S ELSE RunOn(S, t)
RunOn(S, t) == Continue(Exec(S, t), t)
Running(r) == [cache |-> cache, acache |-> acache, ns |-> notifications, req |-> r]
Land(S, handling) ==
    /\ cache' = S.cache
    /\ acache' = S.acache
    /\ notifications' = S.ns
    /\ extension' = [extension EXCEPT !.handling = handling]
Started(S) == Land(S, Append(extension.handling, S.req))
Resumed(S, i) == Land(S, [extension.handling EXCEPT ![i] = S.req])

InitRequests ==
    /\ dp = DocParam("chain", "main", 1, "div", "")
    /\ now = 0
    /\ cache = {}
    /\ acache = {}
    /\ calls = 0
    /\ last = NoCallRec
    /\ prev = NoCallRec
    /\ since = Quiet
    /\ call = NoCall
    /\ strategies = initializeStrategies
    /\ extension = NewExtension
    /\ notifications = NewNotificationSystem
    /\ tab = NewTab

\* the contextmenu listener of the page
ContextMenu(e) ==
    /\ extension.lastClickedElement # e
    /\ extension' = [extension EXCEPT !.lastClickedElement = e]
    /\ UNCHANGED <<dp, now, cache, acache, calls, last, prev, since, call, strategies, notifications, tab>>
\* handleMessage({action: 'generateXPath', data}) up to its first await;
\* p is what document.elementFromPoint(data.x, data.y) finds
Message(p) ==
    /\ Len(extension.handling) < MaxRequests
    /\ LET target == IF extension.lastClickedElement # Null
                     THEN extension.lastClickedElement ELSE p
       IN  IF target = Null
           THEN /\ notifications' = show(notifications, errorDuration)
                /\ extension' = [extension EXCEPT
                       !.handling = Append(@, [Request(Null, now) EXCEPT !.pc = "done"])]
                /\ UNCHANGED <<cache, acache>>
           ELSE Started(RunOn(Running(Request(target, now)), now))
    /\ UNCHANGED <<dp, now, calls, last, prev, since, call, strategies, tab>>
\* the handler of message i resumes after its await
Resume(i) ==
    /\ extension.handling[i].pc # "done"
    /\ Resumed(RunOn(Running(extension.handling[i]), now), i)
    /\ UNCHANGED <<dp, now, calls, last, prev, since, call, strategies, tab>>
NextRequests ==
    \/ \E e \in Elements : ContextMenu(e)
    \/ \E p \in Elements \cup {Null} : Message(p)
    \/ \E i \in 1..MaxRequests : i <= Len(extension.handling) /\ Resume(i)
    \/ Tick
SpecRequests == InitRequests /\ [][NextRequests]_vars

\* the caches after the calls of generateXPath made by the messages, run
\* one after another in the order the messages started
RECURSIVE Replay(_, _, _)
ReplayAfter(rest, out) == Replay(rest, out.cache, out.acache)
Replay(handling, c, a) ==
    IF handling = << >> THEN [cache |-> c, acache |-> a]
    ELSE IF Head(handling).elem = Null THEN Replay(Tail(handling), c, a)
    ELSE ReplayAfter(Tail(handling),
                     generateXPath(doc, Head(handling).elem, Head(handling).at, c, a))

\* C23: with overlapping messages the result cache is the one left by
\* running their generateXPath calls one after another in start order
C23_Serial == cache = Replay(extension.handling, {}, {}).cache
\* two messages for the same element overlap: the first is still waiting
\* for the clipboard when the second is served from the cache
C23_Witness ==
    \E i, j \in 1..Len(extension.handling) :
        /\ i < j
        /\ extension.handling[i].pc = "notify"
        /\ extension.handling[j].elem = extension.handling[i].elem
        /\ extension.handling[j].hit
        /\ cache # {}


\* C26: two distinct elements of a page, shadow trees included, never have
\* the same cache key, so a hit never serves the result of another node
C26_KeysDistinct ==
    \A a, b \in Elements :
        a # b => generateCacheKey(doc, a) # generateCacheKey(doc, b)


\* C27: whenever the text strategy produces a candidate in a run of the
\* manager, no other candidate of the run has a higher score and the text
\* candidate is the primary
C27_TextWins ==
    (call.op = "manager" /\ ~call.thrown) =>
        \A i \in DOMAIN call.run.produced :
            call.run.produced[i].strategy = "text" =>
                /\ \A j \in DOMAIN call.run.produced :
                       call.run.produced[j].score <= call.run.produced[i].score
                /\ call.run.result.primary.strategy = "text"


(***************************************************************************)
(* The background script's contextMenus.onClicked listener and the tab it  *)
(* talks to.  tab.loaded: the content script's onMessage listener is       *)
(* there; tab.utils: window.Utils is defined in the content-script world;  *)
(* tab.restricted: a page scripts cannot be injected into.  sent, injected *)
(* and alerts count the generateXPath messages, the file injections and    *)
(* the alerts of the click being handled; wasLoaded is tab.loaded when the *)
(* click arrived.  One click is handled at a time.                          *)
(***************************************************************************)
\* what `await chrome.tabs.sendMessage(tab.id, {action: 'ping'})` gives:
\* handleMessage has a branch for 'generateXPath' only and its listener
\* returns nothing, so a loaded content script leaves the ping unanswered
\* and the promise resolves to undefined; with no listener it rejects
PingResponse(loaded) ==
    IF loaded THEN [rejected |-> FALSE, loaded |-> FALSE]
    ELSE [rejected |-> TRUE, loaded |-> FALSE]

InitBackground ==
    /\ dp = DocParam("chain", "", 1, "div", "")
    /\ now = 0
    /\ cache = {}
    /\ acache = {}
    /\ calls = 0
    /\ last = NoCallRec
    /\ prev = NoCallRec
    /\ since = Quiet
    /\ call = NoCall
    /\ strategies = initializeStrategies
    /\ extension = NewExtension
    /\ notifications = NewNotificationSystem
    /\ tab \in {[NewTab EXCEPT !.restricted = r] : r \in BOOLEAN}

NotTab == <<dp, now, cache, acache, calls, last, prev, since, call, strategies, extension, notifications>>
\* the user picks the menu entry: the listener sends the ping
ClickMenu ==
    /\ tab.pc = "idle"
    /\ tab.clicks < MaxClicks
    /\ tab' = [tab EXCEPT !.pc = "pinged", !.wasLoaded = tab.loaded, !.clicks = @ + 1,
                          !.sent = 0, !.injected = 0, !.alerts = 0]
    /\ UNCHANGED NotTab
\* the ping settles: the message is sent at once on {loaded: true}, the
\* probe for window.Utils otherwise
PingSettles ==
    /\ tab.pc = "pinged"
    /\ tab' = IF ~PingResponse(tab.loaded).rejected /\ PingResponse(tab.loaded).loaded
              THEN [tab EXCEPT !.pc = "sending", !.sent = @ + 1]
              ELSE [tab EXCEPT !.pc = "probing"]
    /\ UNCHANGED NotTab
\* executeScript({func}) settles: it rejects on a restricted page, and the
\* listener asks for an alert; otherwise the files are injected, all of
\* them or content.js alone
ProbeSettles ==
    /\ tab.pc = "probing"
    /\ tab' = IF tab.restricted
              THEN [tab EXCEPT !.pc = "idle", !.alerts = @ + 1]
              ELSE [tab EXCEPT !.pc = "injecting", !.injected = @ + 1]
    /\ UNCHANGED NotTab
\* executeScript({files}) settles: the scripts have run in the tab, and
\* the listener sets the 200 ms timer
InjectionSettles ==
    /\ tab.pc = "injecting"
    /\ tab' = [tab EXCEPT !.pc = "waiting", !.utils = TRUE, !.loaded = TRUE]
    /\ UNCHANGED NotTab
\* the 200 ms timer fires: the message is sent
RetryFires ==
    /\ tab.pc = "waiting"
    /\ tab' = IF tab.loaded
              THEN [tab EXCEPT !.pc = "sending", !.sent = @ + 1]
              ELSE [tab EXCEPT !.pc = "idle", !.sent = @ + 1, !.alerts = @ + 1]
    /\ UNCHANGED NotTab
\* sendMessage({action: 'generateXPath'}) settles
SendSettles ==
    /\ tab.pc = "sending"
    /\ tab' = [tab EXCEPT !.pc = "idle"]
    /\ UNCHANGED NotTab
\* the user reloads the page: the content script and its globals are gone
Reload ==
    /\ tab.loaded
    /\ tab' = [tab EXCEPT !.loaded = FALSE, !.utils = FALSE]
    /\ UNCHANGED NotTab
NextBackground ==
    \/ ClickMenu
    \/ PingSettles
    \/ ProbeSettles
    \/ InjectionSettles
    \/ RetryFires
    \/ SendSettles
    \/ Reload
SpecBackground == InitBackground /\ [][NextBackground]_vars

\* C30: a click that finds the content script loaded injects no script and
\* sends exactly one generateXPath message
C30_LoadedNoInjection ==
    (tab.clicks > 0 /\ tab.wasLoaded) =>
        /\ tab.injected = 0
        /\ tab.pc = "idle" => tab.sent = 1

=============================================================================
